---- MODULE Spec2Model ----
(***************************************************************************)
(* The dynamic AABB tree of include/abby2.hpp (namespace abby2): the AABB  *)
(* value type, the node pool with its intrusive free list, the particle    *)
(* map and the public operations of class Tree.                            *)
(*                                                                         *)
(* Conventions.                                                            *)
(*  - unsigned int is written as a two's-complement integer: 0xffffffff is *)
(*    -1, so that 0 - 1 wraps to NULL_NODE exactly as in the code;         *)
(*    comparisons of unsigned values go through ULess.                     *)
(*  - std::vector<double> is a sequence; C++ index i is sequence index     *)
(*    i + 1.  double arithmetic is exact integer arithmetic (the inputs    *)
(*    and the skin thickness are integers).                                *)
(*  - AABB::centre is written by the code and never read by class Tree;    *)
(*    it is left out.                                                      *)
(*  - An access outside a vector or outside the pool is undefined          *)
(*    behaviour.  A call that makes one either faults (the process dies)   *)
(*    or goes on: the read yields the bit pattern zero, the write lands    *)
(*    outside the state.  Both outcomes are successors of the call; the    *)
(*    state the second one leaves is marked (last.ub) and no call is       *)
(*    followed from it.                                                    *)
(*  - ndebug tells whether the build defines NDEBUG (assert compiled out). *)
(***************************************************************************)
EXTENDS Integers, Sequences, FiniteSets, TLC

VARIABLES
  root,           \* Tree::root
  nodes,          \* Tree::nodes, a function on 0 .. nodeCapacity - 1
  nodeCount,      \* Tree::nodeCount
  nodeCapacity,   \* Tree::nodeCapacity
  freeList,       \* Tree::freeList
  dimension,      \* Tree::dimension
  skinThickness,  \* Tree::skinThickness
  particleMap,    \* Tree::particleMap, a function from the registered ids to node indices
  touchIsOverlap, \* Tree::touchIsOverlap
  ndebug,         \* whether the build defines NDEBUG
  last,           \* the last public call: [op, outcome, ret]
  made            \* an AABB the caller constructs from bounds, with the arguments

config == <<dimension, skinThickness, touchIsOverlap, ndebug>>
tree == <<root, nodes, nodeCount, nodeCapacity, freeList, particleMap>>
vars == <<root, nodes, nodeCount, nodeCapacity, freeList, dimension, skinThickness,
          particleMap, touchIsOverlap, ndebug, last, made>>

NULL_NODE == -1

\* Bounds of the model.
MaxId == 2
MaxNodes == 5
MaxCapacity == 8
MaxSurplus == 1

Min(a, b) == IF a < b THEN a ELSE b
Max(a, b) == IF a < b THEN b ELSE a

\* a < b on unsigned int
ULess(a, b) == IF a >= 0 /\ b >= 0 THEN a < b
               ELSE IF a >= 0 THEN TRUE
               ELSE IF b >= 0 THEN FALSE
               ELSE a < b

\* v[i] for a C++ index i (0-based); a read outside the vector that does not
\* fault yields zero
At(v, i) == IF i + 1 \in 1..Len(v) THEN v[i + 1] ELSE 0

(***************************************************************************)
(* class AABB                                                              *)
(***************************************************************************)

RECURSIVE SideProduct(_, _, _, _)
\* the inner loop of computeSurfaceArea, from d2 on
SideProduct(lowerBound, upperBound, d1, d2) ==
  IF d2 >= Len(lowerBound) THEN 1
  ELSE (IF d1 = d2 THEN 1 ELSE upperBound[d2 + 1] - lowerBound[d2 + 1])
       * SideProduct(lowerBound, upperBound, d1, d2 + 1)

RECURSIVE SideSum(_, _, _)
\* the outer loop of computeSurfaceArea, from d1 on
SideSum(lowerBound, upperBound, d1) ==
  IF d1 >= Len(lowerBound) THEN 0
  ELSE SideProduct(lowerBound, upperBound, d1, 0) + SideSum(lowerBound, upperBound, d1 + 1)

computeSurfaceArea(lowerBound, upperBound) == 2 * SideSum(lowerBound, upperBound, 0)

\* AABB() inside a value-initialised Node: empty vectors, surfaceArea zero
DefaultAABB == [lowerBound |-> <<>>, upperBound |-> <<>>, surfaceArea |-> 0]

MkAABB(lowerBound, upperBound) ==
  [lowerBound |-> lowerBound, upperBound |-> upperBound,
   surfaceArea |-> computeSurfaceArea(lowerBound, upperBound)]

\* std::vector::resize: keep the first n elements, append zeros
Resize(v, n) == [i \in 1..n |-> IF i <= Len(v) THEN v[i] ELSE 0]

\* AABB::setDimension (the surface area is not recomputed)
setDimension(aabb, dim) ==
  [aabb EXCEPT !.lowerBound = Resize(aabb.lowerBound, dim),
               !.upperBound = Resize(aabb.upperBound, dim)]

\* AABB(lowerBound_, upperBound_): both checks read the members, which are
\* default-constructed and empty; the arguments are never copied.
AABBFromBounds(lowerBound_, upperBound_) ==
  LET lowerBound == <<>>
      upperBound == <<>>
  IN IF Len(lowerBound) # Len(upperBound)
       THEN [throws |-> TRUE, aabb |-> DefaultAABB]
     ELSE IF \E i \in 1..Len(lowerBound) : lowerBound[i] > upperBound[i]
       THEN [throws |-> TRUE, aabb |-> DefaultAABB]
     ELSE [throws |-> FALSE, aabb |-> MkAABB(lowerBound, upperBound)]

\* the assert of contains / overlaps on the sizes of the operands fails
SizesDiffer(aabb1, aabb2) == Len(aabb2.lowerBound) # Len(aabb1.lowerBound)

\* one of the two asserts of merge fails
DimsDiffer(aabb1, aabb2) ==
  \/ Len(aabb1.lowerBound) # Len(aabb2.lowerBound)
  \/ Len(aabb1.upperBound) # Len(aabb2.upperBound)

\* the loop over the dimension of aabb1 reads past the end of aabb2
ReadsPast(aabb1, aabb2) ==
  \/ Len(aabb2.lowerBound) < Len(aabb1.lowerBound)
  \/ Len(aabb2.upperBound) < Len(aabb1.lowerBound)
  \/ Len(aabb1.upperBound) < Len(aabb1.lowerBound)

\* AABB::merge(aabb1, aabb2): the value assigned to *this
merge(aabb1, aabb2) ==
  LET n == Len(aabb1.lowerBound)
      lo == [i \in 1..n |-> Min(aabb1.lowerBound[i], At(aabb2.lowerBound, i - 1))]
      hi == [i \in 1..n |-> Max(At(aabb1.upperBound, i - 1), At(aabb2.upperBound, i - 1))]
  IN MkAABB(lo, hi)

\* self.contains(aabb)
contains(self, aabb) ==
  \A i \in 1..Len(self.lowerBound) :
     /\ ~(At(aabb.lowerBound, i - 1) < self.lowerBound[i])
     /\ ~(At(aabb.upperBound, i - 1) > At(self.upperBound, i - 1))


\* overlaps that takes touching boxes as overlapping under either policy
overlapsTouching(self, aabb, touch) ==
  ~ \E i \in 1..Len(self.lowerBound) :
      \/ At(aabb.upperBound, i - 1) < self.lowerBound[i]
      \/ At(aabb.lowerBound, i - 1) > At(self.upperBound, i - 1)

\* overlaps that takes touching boxes as apart under either policy
overlapsStrictly(self, aabb, touch) ==
  ~ \E i \in 1..Len(self.lowerBound) :
      \/ At(aabb.upperBound, i - 1) <= self.lowerBound[i]
      \/ At(aabb.lowerBound, i - 1) >= At(self.upperBound, i - 1)

\* self.overlaps(aabb, touchIsOverlap)
overlaps(self, aabb, touch) ==
  IF touch
    THEN ~ \E i \in 1..Len(self.lowerBound) :
             \/ At(aabb.upperBound, i - 1) < self.lowerBound[i]
             \/ At(aabb.lowerBound, i - 1) > At(self.upperBound, i - 1)
    ELSE ~ \E i \in 1..Len(self.lowerBound) :
             \/ At(aabb.upperBound, i - 1) <= self.lowerBound[i]
             \/ At(aabb.lowerBound, i - 1) >= At(self.upperBound, i - 1)

(***************************************************************************)
(* struct Node and the node pool                                           *)
(***************************************************************************)

\* a value-initialised Node (std::vector::resize)
FreshNode ==
  [aabb |-> DefaultAABB, parent |-> 0, next |-> 0, left |-> 0, right |-> 0,
   height |-> 0, particle |-> 0]

\* what a read of nodes[i] outside the pool yields when it does not fault
GarbageNode ==
  [aabb |-> DefaultAABB, parent |-> 0, next |-> 0, left |-> 0, right |-> 0,
   height |-> 0, particle |-> 0]

\* The tree as a value: the members the private operations read and write,
\* with st = "ok" | "abort" (a failed assert) | "hang" (a loop that never
\* ends), and ub = the call has made an access outside a vector or the pool.
ThisTree ==
  [root |-> root, nodes |-> nodes, nodeCount |-> nodeCount,
   nodeCapacity |-> nodeCapacity, freeList |-> freeList, st |-> "ok", ub |-> FALSE]

InPool(T, i) == i \in DOMAIN T.nodes
N(T, i) == IF InPool(T, i) THEN T.nodes[i] ELSE GarbageNode
Abort(T) == [T EXCEPT !.st = IF T.st = "ok" THEN "abort" ELSE T.st]
Hang(T) == [T EXCEPT !.st = IF T.st = "ok" THEN "hang" ELSE T.st]
Taint(T, b) == [T EXCEPT !.ub = T.ub \/ b]

SetParent(T, i, v) == IF InPool(T, i) THEN [T EXCEPT !.nodes[i].parent = v] ELSE T
SetNext(T, i, v) == IF InPool(T, i) THEN [T EXCEPT !.nodes[i].next = v] ELSE T
SetLeft(T, i, v) == IF InPool(T, i) THEN [T EXCEPT !.nodes[i].left = v] ELSE T
SetRight(T, i, v) == IF InPool(T, i) THEN [T EXCEPT !.nodes[i].right = v] ELSE T
SetHeight(T, i, v) == IF InPool(T, i) THEN [T EXCEPT !.nodes[i].height = v] ELSE T
SetParticle(T, i, v) == IF InPool(T, i) THEN [T EXCEPT !.nodes[i].particle = v] ELSE T
SetAABB(T, i, v) == IF InPool(T, i) THEN [T EXCEPT !.nodes[i].aabb = v] ELSE T

\* nodes[i].aabb.merge(aabb1, aabb2)
SetMerged(T, i, aabb1, aabb2) ==
  IF ~ndebug /\ DimsDiffer(aabb1, aabb2) THEN Abort(T)
  ELSE SetAABB(Taint(T, ReadsPast(aabb1, aabb2)), i, merge(aabb1, aabb2))

\* nodes[i].aabb.merge(nodes[j].aabb, nodes[k].aabb)
MergeChildren(T, i, j, k) == SetMerged(T, i, N(T, j).aabb, N(T, k).aabb)

\* nodes[i].height = 1 + std::max(nodes[j].height, nodes[k].height)
HeightFromChildren(T, i, j, k) ==
  SetHeight(T, i, 1 + Max(N(T, j).height, N(T, k).height))

\* nodes[i].parent = nodes[j].parent
SetParentFrom(T, i, j) == SetParent(T, i, N(T, j).parent)

\* Node::isLeaf
isLeaf(node) == node.left = NULL_NODE

\* lines 711-723 of allocateNode with the free list threaded from slot 0
GrowPoolFromZero(T) ==
  [T EXCEPT !.nodeCapacity = 2 * T.nodeCapacity,
            !.nodes = [i \in 0..(2 * T.nodeCapacity - 1) |->
                         [FreshNode EXCEPT !.next = IF i = 2 * T.nodeCapacity - 1
                                                      THEN NULL_NODE ELSE i + 1,
                                           !.height = -1]],
            !.freeList = 0]

\* lines 711-723 of allocateNode: double the pool and thread the new free list
GrowPool(T) ==
  LET cap == 2 * T.nodeCapacity
      resized == [i \in 0..(cap - 1) |-> IF i \in DOMAIN T.nodes THEN T.nodes[i] ELSE FreshNode]
      threaded == [i \in 0..(cap - 1) |->
                     IF i = cap - 1
                       THEN [resized[i] EXCEPT !.next = NULL_NODE, !.height = -1]
                     ELSE IF ~ULess(i, T.nodeCount)
                       THEN [resized[i] EXCEPT !.next = i + 1, !.height = -1]
                     ELSE resized[i]]
  IN [T EXCEPT !.nodeCapacity = cap, !.nodes = threaded, !.freeList = T.nodeCount]

\* lines 727-733 of allocateNode: initialise the node taken off the free list
InitNode(T, node) ==
  SetAABB(SetHeight(SetRight(SetLeft(SetParent(T, node, NULL_NODE), node, NULL_NODE),
                             node, NULL_NODE), node, 0),
          node, setDimension(N(T, node).aabb, dimension))

\* lines 725-736 of allocateNode: take the head of the free list.  The code
\* leaves `next` of the node as it was; it is dead until the node is freed
\* again and is normalised to 0 here.
TakeFree(T, node) ==
  [T |-> InitNode(SetNext([T EXCEPT !.freeList = N(T, node).next,
                                    !.nodeCount = T.nodeCount + 1], node, 0), node),
   node |-> node]

\* lines 708-723 of allocateNode: the pool once the free list is not empty
Grown(T) ==
  IF T.freeList # NULL_NODE THEN T
  ELSE IF ~ndebug /\ T.nodeCount # T.nodeCapacity THEN Abort(T)
  ELSE GrowPool(T)

\* the head of the free list of T
FreeHead(T) == TakeFree(T, T.freeList)

\* Tree::allocateNode: [T |-> the tree afterwards, node |-> the index returned]
allocateNode(T) == FreeHead(Grown(T))


\* freeNode without the decrement of nodeCount (line 750)
freeNodeKeepsCount(T, node) ==
  IF ~ndebug /\ (~ULess(node, T.nodeCapacity) \/ ~ULess(0, T.nodeCount)) THEN Abort(T)
  ELSE IF InPool(T, node)
    THEN [T EXCEPT !.nodes[node] = [FreshNode EXCEPT !.next = T.freeList, !.height = -1],
                   !.freeList = node]
  ELSE [T EXCEPT !.freeList = node]

\* Tree::freeNode.  The code leaves aabb, parent, left, right and particle of
\* the freed node as they were; the model does not keep the payload of a free
\* slot and resets it to that of a value-initialised node.
freeNode(T, node) ==
  IF ~ndebug /\ (~ULess(node, T.nodeCapacity) \/ ~ULess(0, T.nodeCount)) THEN Abort(T)
  ELSE IF InPool(T, node)
    THEN [T EXCEPT !.nodes[node] = [FreshNode EXCEPT !.next = T.freeList, !.height = -1],
                   !.freeList = node, !.nodeCount = T.nodeCount - 1]
  ELSE [T EXCEPT !.freeList = node, !.nodeCount = T.nodeCount - 1]

(***************************************************************************)
(* Tree::balance                                                           *)
(***************************************************************************)

\* the old parent p of the rotated node now points to the hoisted child `up`
RelinkAt(T, p, node, up) ==
  IF p # NULL_NODE
    THEN IF N(T, p).left = node THEN SetLeft(T, p, up)
         ELSE IF ~ndebug /\ N(T, p).right # node THEN Abort(T)
         ELSE SetRight(T, p, up)
  ELSE [T EXCEPT !.root = up]

Relink(T, node, up) == RelinkAt(T, N(T, up).parent, node, up)

\* lines 950-964 and 1002-1016: swap node and the child `up`
Hoist(T, node, up) ==
  Relink(SetParent(SetParentFrom(SetLeft(T, up, node), up, node), node, up), node, up)

\* node.aabb = merge(a, b); up.aabb = merge(node, c); then the two heights
Remetric(T, node, up, a, b, c) ==
  HeightFromChildren(
    HeightFromChildren(
      MergeChildren(MergeChildren(T, node, a, b), up, node, c),
      node, a, b),
    up, node, c)

\* the rotation in which the left child of `right` stays on equal heights
RightTailLeftStays(T, node, left, right, rightLeft, rightRight) ==
  IF N(T, rightLeft).height >= N(T, rightRight).height
    THEN Remetric(SetParent(SetRight(SetRight(T, right, rightLeft), node, rightRight),
                            rightRight, node),
                  node, right, left, rightRight, rightLeft)
  ELSE Remetric(SetParent(SetRight(SetRight(T, right, rightRight), node, rightLeft),
                          rightLeft, node),
                node, right, left, rightLeft, rightRight)

\* lines 967-991: the rotation proper, after the swap
RightTail(T, node, left, right, rightLeft, rightRight) ==
  IF N(T, rightLeft).height > N(T, rightRight).height
    THEN Remetric(SetParent(SetRight(SetRight(T, right, rightLeft), node, rightRight),
                            rightRight, node),
                  node, right, left, rightRight, rightLeft)
  ELSE Remetric(SetParent(SetRight(SetRight(T, right, rightRight), node, rightLeft),
                          rightLeft, node),
                node, right, left, rightLeft, rightRight)

\* lines 945-994: rotate the right branch up
RotateRightUp(T, node, left, right) ==
  IF ~ndebug /\ (\/ ~ULess(N(T, right).left, T.nodeCapacity)
                 \/ ~ULess(N(T, right).right, T.nodeCapacity))
    THEN Abort(T)
  ELSE RightTail(Hoist(T, node, right), node, left, right,
                 N(T, right).left, N(T, right).right)

\* lines 1019-1043: the rotation proper, after the swap
LeftTail(T, node, left, right, leftLeft, leftRight) ==
  IF N(T, leftLeft).height > N(T, leftRight).height
    THEN Remetric(SetParent(SetLeft(SetRight(T, left, leftLeft), node, leftRight),
                            leftRight, node),
                  node, left, right, leftRight, leftLeft)
  ELSE Remetric(SetParent(SetLeft(SetRight(T, left, leftRight), node, leftLeft),
                          leftLeft, node),
                node, left, right, leftLeft, leftRight)

\* lines 997-1046: rotate the left branch up
RotateLeftUp(T, node, left, right) ==
  IF ~ndebug /\ (\/ ~ULess(N(T, left).left, T.nodeCapacity)
                 \/ ~ULess(N(T, left).right, T.nodeCapacity))
    THEN Abort(T)
  ELSE LeftTail(Hoist(T, node, left), node, left, right,
                N(T, left).left, N(T, left).right)

\* lines 937-1048 of balance, for the children left and right of node
Rotate(T, node, left, right) ==
  IF ~ndebug /\ (~ULess(left, T.nodeCapacity) \/ ~ULess(right, T.nodeCapacity))
    THEN [T |-> Abort(T), node |-> node]
  ELSE IF N(T, right).height - N(T, left).height > 1
    THEN [T |-> RotateRightUp(T, node, left, right), node |-> right]
  ELSE IF N(T, right).height - N(T, left).height < -1
    THEN [T |-> RotateLeftUp(T, node, left, right), node |-> left]
  ELSE [T |-> T, node |-> node]

\* Tree::balance: [T |-> the tree afterwards, node |-> the index returned]
balance(T, node) ==
  IF ~ndebug /\ node = NULL_NODE THEN [T |-> Abort(T), node |-> node]
  ELSE IF isLeaf(N(T, node)) \/ N(T, node).height < 2 THEN [T |-> T, node |-> node]
  ELSE Rotate(T, node, N(T, node).left, N(T, node).right)

(***************************************************************************)
(* Tree::insertLeaf and Tree::removeLeaf                                   *)
(***************************************************************************)

\* lines 788-814: the cost of descending into `child`
DescendCost(T, leafAABB, child, inheritanceCost) ==
  LET aabb == merge(leafAABB, N(T, child).aabb)
  IN IF isLeaf(N(T, child))
       THEN aabb.surfaceArea + inheritanceCost
     ELSE (aabb.surfaceArea - N(T, child).aabb.surfaceArea) + inheritanceCost

\* one round of the descent that breaks as soon as one child costs more
DescendStepEither(T, leafAABB, index) ==
  LET left == N(T, index).left
      right == N(T, index).right
      surfaceArea == N(T, index).aabb.surfaceArea
      combinedSurfaceArea == merge(N(T, index).aabb, leafAABB).surfaceArea
      cost == 2 * combinedSurfaceArea
      inheritanceCost == 2 * (combinedSurfaceArea - surfaceArea)
      costLeft == DescendCost(T, leafAABB, left, inheritanceCost)
      costRight == DescendCost(T, leafAABB, right, inheritanceCost)
  IN [break |-> (cost < costLeft) \/ (cost < costRight),
      index |-> IF costLeft < costRight THEN left ELSE right]

\* lines 776-823, one round of the descent at an internal node `index`:
\* whether the loop breaks there, and the index it descends to otherwise
DescendStep(T, leafAABB, index) ==
  LET left == N(T, index).left
      right == N(T, index).right
      surfaceArea == N(T, index).aabb.surfaceArea
      combinedSurfaceArea == merge(N(T, index).aabb, leafAABB).surfaceArea
      cost == 2 * combinedSurfaceArea
      inheritanceCost == 2 * (combinedSurfaceArea - surfaceArea)
      costLeft == DescendCost(T, leafAABB, left, inheritanceCost)
      costRight == DescendCost(T, leafAABB, right, inheritanceCost)
  IN [break |-> (cost < costLeft) /\ (cost < costRight),
      index |-> IF costLeft < costRight THEN left ELSE right]

\* an assert of the three merges of one round fails
DescendAsserts(T, leafAABB, index) ==
  \/ DimsDiffer(N(T, index).aabb, leafAABB)
  \/ DimsDiffer(leafAABB, N(T, N(T, index).left).aabb)
  \/ DimsDiffer(leafAABB, N(T, N(T, index).right).aabb)

\* one of the three merges of one round reads past the end of a vector
DescendReadsPast(T, leafAABB, index) ==
  \/ ReadsPast(N(T, index).aabb, leafAABB)
  \/ ReadsPast(leafAABB, N(T, N(T, index).left).aabb)
  \/ ReadsPast(leafAABB, N(T, N(T, index).right).aabb)

RECURSIVE Descend(_, _, _, _, _)
\* lines 771-824, the descent loop: [st, ub, index]; `fuel` rounds are left
\* before the loop is known to revisit a node
Descend(T, leafAABB, index, fuel, ub) ==
  IF isLeaf(N(T, index)) THEN [st |-> "ok", ub |-> ub, index |-> index]
  ELSE IF fuel = 0 THEN [st |-> "hang", ub |-> ub, index |-> index]
  ELSE IF ~ndebug /\ DescendAsserts(T, leafAABB, index)
    THEN [st |-> "abort", ub |-> ub, index |-> index]
  ELSE LET step == DescendStep(T, leafAABB, index)
           ub1 == ub \/ DescendReadsPast(T, leafAABB, index)
       IN IF step.break THEN [st |-> "ok", ub |-> ub1, index |-> index]
          ELSE Descend(T, leafAABB, step.index, fuel - 1, ub1)

RECURSIVE InsertWalk(_, _, _)
\* the next round of the walk at the same index
InsertStay(T, index, fuel) == InsertWalk(T, index, fuel - 1)

\* line 871: index = nodes[index].parent, and the next round
InsertNext(T, index, fuel) == InsertWalk(T, N(T, index).parent, fuel - 1)

\* lines 862-869: fix the height and the AABB of `index`
InsertFixAt(T, index, left, right, fuel) ==
  IF T.st # "ok" THEN T
  ELSE IF ~ndebug /\ (left = NULL_NODE \/ right = NULL_NODE) THEN Abort(T)
  ELSE InsertNext(MergeChildren(HeightFromChildren(T, index, left, right),
                                index, left, right),
                  index, fuel)

\* lines 860-871: one round of the walk, b = what balance returned
InsertFix(b, fuel) ==
  InsertFixAt(b.T, b.node, N(b.T, b.node).left, N(b.T, b.node).right, fuel)

\* lines 858-872: walk back up the tree fixing heights and AABBs
InsertWalk(T, index0, fuel) ==
  IF index0 = NULL_NODE \/ T.st # "ok" THEN T
  ELSE IF fuel = 0 THEN Hang(T)
  ELSE InsertFix(balance(T, index0), fuel)

\* nodes[p].left = new when it was old, else nodes[p].right = new
SwapChild(T, p, old, new) ==
  IF N(T, p).left = old THEN SetLeft(T, p, new) ELSE SetRight(T, p, new)

\* lines 835-854: hang sibling and leaf under newParent
Attach(T, newParent, leaf, sibling, oldParent) ==
  SetParent(SetParent(SetRight(SetLeft(
    IF oldParent # NULL_NODE THEN SwapChild(T, oldParent, sibling, newParent)
    ELSE [T EXCEPT !.root = newParent],
    newParent, sibling), newParent, leaf), sibling, newParent), leaf, newParent)

\* nodes[i].aabb.merge(aabb, nodes[j].aabb)
MergeWith(T, i, aabb, j) == SetMerged(T, i, aabb, N(T, j).aabb)

\* nodes[i].height = nodes[j].height + 1
HeightAbove(T, i, j) == SetHeight(T, i, N(T, j).height + 1)

\* lines 830-854, a = what allocateNode returned
Wire(a, leaf, leafAABB, sibling, oldParent) ==
  Attach(HeightAbove(MergeWith(SetParent(a.T, a.node, oldParent), a.node, leafAABB, sibling),
                     a.node, sibling),
         a.node, leaf, sibling, oldParent)

\* lines 826-854: create the new parent of `sibling` and `leaf`
NewParent(T, leaf, leafAABB, sibling) ==
  Wire(allocateNode(T), leaf, leafAABB, sibling, N(T, sibling).parent)

\* lines 857-872: the walk from the parent of `leaf`
WalkFrom(T, leaf) == InsertWalk(T, N(T, leaf).parent, T.nodeCapacity + 1)

\* lines 826-872, d = what the descent returned
InsertAt(T, leaf, leafAABB, d) ==
  IF d.st = "abort" THEN Abort(T)
  ELSE IF d.st = "hang" THEN Hang(T)
  ELSE WalkFrom(NewParent(Taint(T, d.ub), leaf, leafAABB, d.index), leaf)

\* lines 766-824, for the box of the leaf
InsertBelow(T, leaf, leafAABB) ==
  InsertAt(T, leaf, leafAABB, Descend(T, leafAABB, T.root, T.nodeCapacity + 1, FALSE))

\* Tree::insertLeaf
insertLeaf(T, leaf) ==
  IF T.root = NULL_NODE
    THEN SetParent([T EXCEPT !.root = leaf], leaf, NULL_NODE)
  ELSE InsertBelow(T, leaf, N(T, leaf).aabb)

RECURSIVE RemoveWalk(_, _, _)
\* line 916: index = nodes[index].parent, and the next round
RemoveNext(T, index, fuel) == RemoveWalk(T, N(T, index).parent, fuel - 1)

\* lines 909-914: fix the AABB and the height of `index`
RemoveFixAt(T, index, left, right, fuel) ==
  IF T.st # "ok" THEN T
  ELSE RemoveNext(HeightFromChildren(MergeChildren(T, index, left, right),
                                     index, left, right),
                  index, fuel)

\* lines 907-916: one round of the walk, b = what balance returned
RemoveFix(b, fuel) ==
  RemoveFixAt(b.T, b.node, N(b.T, b.node).left, N(b.T, b.node).right, fuel)

\* lines 906-918: adjust ancestor bounds
RemoveWalk(T, index0, fuel) ==
  IF index0 = NULL_NODE \/ T.st # "ok" THEN T
  ELSE IF fuel = 0 THEN Hang(T)
  ELSE RemoveFix(balance(T, index0), fuel)

\* lines 905-918: the walk from `index`
RemoveFrom(T, index) == RemoveWalk(T, index, T.nodeCapacity + 1)

\* the removal that does not free `parent` (line 903)
SpliceKeepsParent(T, parent, grandParent, sibling) ==
  IF grandParent # NULL_NODE
    THEN RemoveFrom(SetParent(SwapChild(T, grandParent, parent, sibling),
                              sibling, grandParent),
                    grandParent)
  ELSE SetParent([T EXCEPT !.root = sibling], sibling, NULL_NODE)

\* lines 894-923: take `parent` out of the tree, `sibling` takes its place
Splice(T, parent, grandParent, sibling) ==
  IF grandParent # NULL_NODE
    THEN RemoveFrom(freeNode(SetParent(SwapChild(T, grandParent, parent, sibling),
                                       sibling, grandParent),
                             parent),
                    grandParent)
  ELSE freeNode(SetParent([T EXCEPT !.root = sibling], sibling, NULL_NODE), parent)

\* lines 886-892: the grandparent and the sibling of `leaf`
Unhook(T, parent, leaf) ==
  Splice(T, parent, N(T, parent).parent,
         IF N(T, parent).left = leaf THEN N(T, parent).right ELSE N(T, parent).left)

\* Tree::removeLeaf
removeLeaf(T, leaf) ==
  IF leaf = T.root THEN [T EXCEPT !.root = NULL_NODE]
  ELSE Unhook(T, N(T, leaf).parent, leaf)

(***************************************************************************)
(* Tree::validate (compiled in only without NDEBUG)                        *)
(***************************************************************************)

RECURSIVE validateStructure(_, _, _)
\* TRUE when no assert of validateStructure fails below `node`
validateStructure(T, node, fuel) ==
  IF node = NULL_NODE THEN TRUE
  ELSE IF fuel = 0 THEN FALSE
  ELSE LET n == N(T, node)
       IN /\ (node = T.root => n.parent = NULL_NODE)
          /\ IF isLeaf(n) THEN n.right = NULL_NODE /\ n.height = 0
             ELSE /\ ULess(n.left, T.nodeCapacity) /\ ULess(n.right, T.nodeCapacity)
                  /\ N(T, n.left).parent = node
                  /\ N(T, n.right).parent = node
                  /\ validateStructure(T, n.left, fuel - 1)
                  /\ validateStructure(T, n.right, fuel - 1)

RECURSIVE validateMetrics(_, _, _)
\* TRUE when no assert of validateMetrics fails below `node`
validateMetrics(T, node, fuel) ==
  IF node = NULL_NODE THEN TRUE
  ELSE IF fuel = 0 THEN FALSE
  ELSE LET n == N(T, node)
           l == N(T, n.left)
           r == N(T, n.right)
           aabb == merge(l.aabb, r.aabb)
       IN IF isLeaf(n) THEN n.right = NULL_NODE /\ n.height = 0
          ELSE /\ ULess(n.left, T.nodeCapacity) /\ ULess(n.right, T.nodeCapacity)
               /\ n.height = 1 + Max(l.height, r.height)
               /\ ~DimsDiffer(l.aabb, r.aabb)
               /\ \A i \in 0..(dimension - 1) :
                     /\ At(aabb.lowerBound, i) = At(n.aabb.lowerBound, i)
                     /\ At(aabb.upperBound, i) = At(n.aabb.upperBound, i)
               /\ validateMetrics(T, n.left, fuel - 1)
               /\ validateMetrics(T, n.right, fuel - 1)

RECURSIVE FreeCount(_, _, _)
\* lines 594-601: the length of the free list, or -1 when the walk leaves the
\* pool (the assert fails) or never ends
FreeCount(T, freeIndex, fuel) ==
  IF freeIndex = NULL_NODE THEN 0
  ELSE IF fuel = 0 \/ ~ULess(freeIndex, T.nodeCapacity) THEN -1
  ELSE LET rest == FreeCount(T, N(T, freeIndex).next, fuel - 1)
       IN IF rest < 0 THEN -1 ELSE rest + 1

RECURSIVE computeHeight(_, _, _)
\* Tree::computeHeight(node), or -1 when its assert fails
computeHeight(T, node, fuel) ==
  IF fuel = 0 \/ ~ULess(node, T.nodeCapacity) THEN -1
  ELSE IF isLeaf(N(T, node)) THEN 0
  ELSE LET height1 == computeHeight(T, N(T, node).left, fuel - 1)
           height2 == computeHeight(T, N(T, node).right, fuel - 1)
       IN IF height1 < 0 \/ height2 < 0 THEN -1 ELSE 1 + Max(height1, height2)

\* Tree::getHeight
getHeight(T) == IF T.root = NULL_NODE THEN 0 ELSE N(T, T.root).height

\* Tree::validate in a debug build: TRUE when every assert holds
validate(T) ==
  /\ validateStructure(T, T.root, T.nodeCapacity + 1)
  /\ validateMetrics(T, T.root, T.nodeCapacity + 1)
  /\ FreeCount(T, T.freeList, T.nodeCapacity + 1) >= 0
  /\ getHeight(T) = computeHeight(T, T.root, T.nodeCapacity + 1)
  /\ T.nodeCount + FreeCount(T, T.freeList, T.nodeCapacity + 1) = T.nodeCapacity

(***************************************************************************)
(* The public operations of class Tree                                     *)
(***************************************************************************)

\* the particle identifiers callers use; 0xffffffff is a legal unsigned int
Ids == (1..MaxId) \cup {NULL_NODE}

\* bounds vectors callers pass, as <<lowerBound, upperBound>>
ValidBounds == { <<(<<0, 0>>), (<<1, 1>>)>>, <<(<<1, 0>>), (<<2, 1>>)>> }
InvertedBounds == { <<(<<0, 1>>), (<<1, 0>>)>> }
WrongDimension == { <<(<<0>>), (<<1>>)>>, <<(<<0>>), (<<1, 1>>)>>, <<(<<0, 0>>), (<<1>>)>> }
Bounds == ValidBounds \cup InvertedBounds \cup WrongDimension

\* the record of a call: outcome is "ok", "invalid_argument" (the exception the
\* call threw), "abort" (failed assert), "fault" (an access outside a vector
\* faulted) or "hang"; ub says that the call made such an access and went on
Result(op, outcome, ret, particles, ub) ==
  [op |-> op, outcome |-> outcome, ret |-> ret, particles |-> particles, ub |-> ub]

\* the process is running and has not executed undefined behaviour
Alive == last.outcome \notin {"abort", "fault", "hang"} /\ ~last.ub

\* the nodes in use beyond those a tree of the registered particles takes
Surplus(T, map) ==
  T.nodeCount - (IF DOMAIN map = {} THEN 0 ELSE 2 * Cardinality(DOMAIN map) - 1)

\* the call ends: normally or by throw (outcome) when T.st = "ok", and by the
\* death of the process otherwise; an access outside a vector may fault
Return(T, map, op, outcome, ret, particles) ==
  /\ T.nodeCapacity <= MaxCapacity
  /\ T.nodeCount <= MaxNodes \/ Surplus(T, map) <= 0
  /\ Surplus(T, map) <= MaxSurplus
  /\ \/ /\ T.st = "ok"
        /\ root' = T.root
        /\ nodes' = T.nodes
        /\ nodeCount' = T.nodeCount
        /\ nodeCapacity' = T.nodeCapacity
        /\ freeList' = T.freeList
        /\ particleMap' = map
        /\ last' = Result(op, outcome, ret, particles, T.ub)
     \/ /\ T.st # "ok" \/ T.ub
        /\ UNCHANGED tree
        /\ last' = Result(op, IF T.ub THEN "fault" ELSE T.st, FALSE, <<>>, FALSE)
  /\ UNCHANGED <<config, made>>


\* particleMap.erase that erases nothing
EraseNothing(map, particle) == map

Erase(map, particle) == [p \in DOMAIN map \ {particle} |-> map[p]]

\* lines 261-271 up to the throw at axis `bad`: the axes before it are written
WriteBoundsBefore(aabb, lowerBound, upperBound, bad) ==
  [aabb EXCEPT
     !.lowerBound = [i \in 1..Len(aabb.lowerBound) |->
                       IF i - 1 < bad THEN lowerBound[i] ELSE aabb.lowerBound[i]],
     !.upperBound = [i \in 1..Len(aabb.upperBound) |->
                       IF i - 1 < bad THEN upperBound[i] ELSE aabb.upperBound[i]]]

\* the fattening loop (lines 274-279, 428-438) applied to the vectors of an
\* AABB: an axis the vectors do not have is written outside them
Fatten(lowerBound, upperBound, size) ==
  MkAABB([i \in 1..Len(lowerBound) |->
            IF i <= dimension THEN lowerBound[i] - skinThickness * size[i] ELSE lowerBound[i]],
         [i \in 1..Len(upperBound) |->
            IF i <= dimension THEN upperBound[i] + skinThickness * size[i] ELSE upperBound[i]])

\* the least C++ index at which the loop of lines 261-271 throws, or -1
FirstThrow(lowerBound, upperBound) ==
  LET inverted == {i \in 0..(dimension - 1) : lowerBound[i + 1] > upperBound[i + 1]}
  IN IF inverted = {} THEN -1 ELSE CHOOSE i \in inverted : \A j \in inverted : i <= j

\* lines 273-293 of insertParticle: fatten, insert the leaf, store the particle
Place(T, node, particle, lowerBound, upperBound) ==
  SetParticle(
    insertLeaf(SetHeight(SetAABB(T, node,
                                 Fatten(lowerBound, upperBound,
                                        [i \in 1..dimension |-> upperBound[i] - lowerBound[i]])),
                         node, 0),
               node),
    node, particle)

\* lines 257-293 of insertParticle, a = what allocateNode returned and bad =
\* the axis at which the loop throws: [T, node, throws]
InsertInto(a, particle, lowerBound, upperBound, bad) ==
  IF bad >= 0
    THEN [T |-> SetAABB(a.T, a.node,
                        WriteBoundsBefore(N(a.T, a.node).aabb, lowerBound, upperBound, bad)),
          node |-> a.node, throws |-> TRUE]
  ELSE [T |-> Place(a.T, a.node, particle, lowerBound, upperBound),
        node |-> a.node, throws |-> FALSE]

\* lines 254-293 of insertParticle, after the two checks
InsertBody(T, particle, lowerBound, upperBound) ==
  InsertInto(allocateNode(T), particle, lowerBound, upperBound,
             FirstThrow(lowerBound, upperBound))

\* the end of insertParticle, b = what InsertBody returned
InsertReturn(b, particle) ==
  IF b.throws
    THEN Return(b.T, particleMap, "insertParticle", "invalid_argument", FALSE, <<>>)
  ELSE Return(b.T, (particle :> b.node) @@ particleMap, "insertParticle", "ok", FALSE, <<>>)

\* insertParticle without the test for a registered particle (lines 245-247)
insertParticleUnchecked(particle, lowerBound, upperBound) ==
  /\ Alive
  /\ IF (Len(lowerBound) # dimension) \/ (Len(upperBound) # dimension)
       THEN Return(ThisTree, particleMap, "insertParticle", "invalid_argument",
                   FALSE, <<>>)
     ELSE InsertReturn(InsertBody(ThisTree, particle, lowerBound, upperBound), particle)

\* Tree::insertParticle.  The exceptions: "Particle already exists in tree!",
\* "Dimensionality mismatch!", "AABB lower bound is greater than the upper bound!"
insertParticle(particle, lowerBound, upperBound) ==
  /\ Alive
  /\ IF particle \in DOMAIN particleMap
       THEN Return(ThisTree, particleMap, "insertParticle", "invalid_argument",
                   FALSE, <<>>)
     ELSE IF (Len(lowerBound) # dimension) \/ (Len(upperBound) # dimension)
       THEN Return(ThisTree, particleMap, "insertParticle", "invalid_argument",
                   FALSE, <<>>)
     ELSE InsertReturn(InsertBody(ThisTree, particle, lowerBound, upperBound), particle)

\* lines 320-323 of removeParticle without freeNode(node) (line 324)
RemoveNodeUnfreed(T, node) ==
  IF ~ndebug /\ (~ULess(node, T.nodeCapacity) \/ ~isLeaf(N(T, node))) THEN Abort(T)
  ELSE removeLeaf(T, node)

\* lines 320-324 of removeParticle and 338-342 of removeAll
RemoveNode(T, node) ==
  IF ~ndebug /\ (~ULess(node, T.nodeCapacity) \/ ~isLeaf(N(T, node))) THEN Abort(T)
  ELSE freeNode(removeLeaf(T, node), node)

\* Tree::removeParticle
removeParticle(particle) ==
  /\ Alive
  /\ IF particle \notin DOMAIN particleMap
       THEN Return(ThisTree, particleMap, "removeParticle", "invalid_argument",
                   FALSE, <<>>)
     ELSE Return(RemoveNode(ThisTree, particleMap[particle]), Erase(particleMap, particle),
                 "removeParticle", "ok", FALSE, <<>>)

RECURSIVE RemoveEach(_, _)
\* the loop of removeAll over the map entries in iteration order `order`
RemoveEach(T, order) ==
  IF order = <<>> \/ T.st # "ok" THEN T
  ELSE RemoveEach(RemoveNode(T, Head(order)), Tail(order))

\* the orders in which an unordered_map holding `map` may be iterated
IterationOrders(map) ==
  {o \in [1..Cardinality(DOMAIN map) -> DOMAIN map] :
     \A i, j \in DOMAIN o : i # j => o[i] # o[j]}

\* Tree::removeAll
removeAll ==
  /\ Alive
  /\ \E order \in IterationOrders(particleMap) :
       Return(RemoveEach(ThisTree, [i \in DOMAIN order |-> particleMap[order[i]]]),
              <<>>, "removeAll", "ok", FALSE, <<>>)

\* the least C++ index below `dimension` that one of the two vectors lacks, or -1
FirstMissing(lowerBound, upperBound) ==
  LET missing == {i \in 0..(dimension - 1) : i >= Len(lowerBound) \/ i >= Len(upperBound)}
  IN IF missing = {} THEN -1 ELSE CHOOSE i \in missing : \A j \in missing : i <= j

\* the least C++ index at which the loop of lines 408-416 throws, or -1
FirstInverted(lowerBound, upperBound) ==
  LET inverted == {i \in 0..(dimension - 1) : At(lowerBound, i) > At(upperBound, i)}
  IN IF inverted = {} THEN -1 ELSE CHOOSE i \in inverted : \A j \in inverted : i <= j

\* lines 424-443 of updateParticle, T1 = the tree after removeLeaf, fat = the
\* AABB after the fattening loop, ub = an access outside a vector was made
Reinsert(T1, node, fat, ub) ==
  IF T1.st # "ok" THEN [T |-> T1, ret |-> FALSE, throws |-> FALSE]
  ELSE [T |-> Taint(insertLeaf(SetAABB(T1, node, fat), node), ub),
        ret |-> TRUE, throws |-> FALSE]

\* lines 421-443 of updateParticle for the AABB `aabb` built at line 419
UpdateTo(T, node, aabb, size, alwaysReinsert) ==
  IF ~alwaysReinsert /\ ~ndebug /\ SizesDiffer(N(T, node).aabb, aabb)
    THEN [T |-> Abort(T), ret |-> FALSE, throws |-> FALSE]
  ELSE IF ~alwaysReinsert /\ contains(N(T, node).aabb, aabb)
    THEN [T |-> Taint(T, ReadsPast(N(T, node).aabb, aabb)), ret |-> FALSE,
          throws |-> FALSE]
  ELSE Reinsert(removeLeaf(T, node), node,
                Fatten(aabb.lowerBound, aabb.upperBound, size),
                \/ ~alwaysReinsert /\ ReadsPast(N(T, node).aabb, aabb)
                \/ Len(aabb.lowerBound) < dimension
                \/ Len(aabb.upperBound) < dimension)

\* lines 418-443 of updateParticle, c = what the AABB constructor did
UpdateWith(T, node, c, size, alwaysReinsert) ==
  IF c.throws THEN [T |-> T, ret |-> FALSE, throws |-> TRUE]
  ELSE UpdateTo(T, node, c.aabb, size, alwaysReinsert)

\* lines 405-443 of updateParticle: [T, ret, throws]
UpdateBody(T, node, lowerBound, upperBound, alwaysReinsert) ==
  UpdateWith(T, node, AABBFromBounds(lowerBound, upperBound),
             [i \in 1..dimension |-> At(upperBound, i - 1) - At(lowerBound, i - 1)],
             alwaysReinsert)

\* the end of updateParticle, b = what UpdateBody returned and short = the
\* loop of lines 408-416 read past the end of an argument
UpdateReturn(b, short) ==
  IF b.throws
    THEN Return(Taint(ThisTree, short), particleMap, "updateParticle", "invalid_argument",
                FALSE, <<>>)
  ELSE Return(Taint(b.T, short), particleMap, "updateParticle", "ok", b.ret, <<>>)

\* lines 398-443 of updateParticle for the leaf `node` of a registered particle
UpdateNode(node, lowerBound, upperBound, alwaysReinsert, missing, inverted) ==
  IF ~ndebug /\ (~ULess(node, nodeCapacity) \/ ~isLeaf(N(ThisTree, node)))
    THEN Return(Abort(ThisTree), particleMap, "updateParticle", "ok", FALSE, <<>>)
  ELSE IF inverted >= 0
    THEN Return(Taint(ThisTree, missing >= 0 /\ missing <= inverted), particleMap,
                "updateParticle", "invalid_argument", FALSE, <<>>)
  ELSE UpdateReturn(UpdateBody(ThisTree, node, lowerBound, upperBound, alwaysReinsert),
                    missing >= 0)

\* Tree::updateParticle.  The exceptions: "Dimensionality mismatch!", "Invalid
\* particle index!", "AABB lower bound is greater than the upper bound!"
updateParticle(particle, lowerBound, upperBound, alwaysReinsert) ==
  /\ Alive
  /\ IF (Len(lowerBound) # dimension) /\ (Len(upperBound) # dimension)
       THEN Return(ThisTree, particleMap, "updateParticle", "invalid_argument",
                   FALSE, <<>>)
     ELSE IF particle \notin DOMAIN particleMap
       THEN Return(ThisTree, particleMap, "updateParticle", "invalid_argument",
                   FALSE, <<>>)
     ELSE UpdateNode(particleMap[particle], lowerBound, upperBound, alwaysReinsert,
                     FirstMissing(lowerBound, upperBound),
                     FirstInverted(lowerBound, upperBound))

(***************************************************************************)
(* Tree::query                                                             *)
(***************************************************************************)

RECURSIVE QueryWalk(_, _, _, _, _, _, _)
\* lines 472-494, the loop of query(particle, aabb): [st, ub, particles]
QueryWalk(T, particle, aabb, stack, particles, fuel, ub) ==
  IF stack = <<>> THEN [st |-> "ok", ub |-> ub, particles |-> particles]
  ELSE IF fuel = 0 THEN [st |-> "hang", ub |-> ub, particles |-> particles]
  ELSE LET node == stack[Len(stack)]
           popped == SubSeq(stack, 1, Len(stack) - 1)
           nodeAABB == N(T, node).aabb
           ub1 == ub \/ ~InPool(T, node)
           ub2 == ub1 \/ ReadsPast(aabb, nodeAABB)
       IN IF node = NULL_NODE
            THEN QueryWalk(T, particle, aabb, popped, particles, fuel - 1, ub1)
          ELSE IF ~ndebug /\ SizesDiffer(aabb, nodeAABB)
            THEN [st |-> "abort", ub |-> ub1, particles |-> particles]
          ELSE IF ~overlaps(aabb, nodeAABB, touchIsOverlap)
            THEN QueryWalk(T, particle, aabb, popped, particles, fuel - 1, ub2)
          ELSE IF isLeaf(N(T, node))
            THEN QueryWalk(T, particle, aabb, popped,
                           IF N(T, node).particle # particle
                             THEN Append(particles, N(T, node).particle)
                           ELSE particles,
                           fuel - 1, ub2)
          ELSE QueryWalk(T, particle, aabb,
                         popped \o <<N(T, node).left, N(T, node).right>>,
                         particles, fuel - 1, ub2)

\* Tree::query(unsigned int, const AABB&) as a function of the tree
query(T, particle, aabb) ==
  QueryWalk(T, particle, aabb, <<T.root>>, <<>>, 2 * T.nodeCapacity + 2, FALSE)

\* a read-only call ends
Answer(q, op) ==
  /\ \/ q.st = "ok" /\ last' = Result(op, "ok", FALSE, q.particles, q.ub)
     \/ /\ q.st # "ok" \/ q.ub
        /\ last' = Result(op, IF q.ub THEN "fault" ELSE q.st, FALSE, <<>>, FALSE)
  /\ UNCHANGED <<tree, config, made>>

\* Tree::query(unsigned int)
queryParticle(particle) ==
  /\ Alive
  /\ IF particle \notin DOMAIN particleMap
       THEN Return(ThisTree, particleMap, "query(particle)", "invalid_argument",
                   FALSE, <<>>)
     ELSE Answer(query(ThisTree, particle, N(ThisTree, particleMap[particle]).aabb),
                 "query(particle)")

\* Tree::query(unsigned int, const AABB&)
queryParticleAABB(particle, aabb) ==
  /\ Alive
  /\ Answer(query(ThisTree, particle, aabb), "query(particle, aabb)")

\* Tree::query(const AABB&); std::numeric_limits<unsigned int>::max() is NULL_NODE
queryAABB(aabb) ==
  /\ Alive
  /\ IF DOMAIN particleMap = {}
       THEN Answer([st |-> "ok", ub |-> FALSE, particles |-> <<>>], "query(aabb)")
     ELSE Answer(query(ThisTree, NULL_NODE, aabb), "query(aabb)")

\* Tree::getAABB: operator[] of the map inserts a missing key with value 0
getAABB(particle) ==
  /\ Alive
  /\ particleMap' = IF particle \in DOMAIN particleMap THEN particleMap
                    ELSE (particle :> 0) @@ particleMap
  /\ last' = Result("getAABB", "ok", FALSE, <<>>, FALSE)
  /\ UNCHANGED <<root, nodes, nodeCount, nodeCapacity, freeList, config, made>>

(***************************************************************************)
(* Tree::rebuild                                                           *)
(***************************************************************************)

\* nodeIndices[i] = v on a vector of fixed size; a write past its end is lost
Store(nodeIndices, i, v) ==
  IF i + 1 \in 1..Len(nodeIndices) THEN [nodeIndices EXCEPT ![i + 1] = v] ELSE nodeIndices

RECURSIVE Collect(_, _, _, _)
\* lines 614-624 from pool index i on: [T, nodeIndices, count]
Collect(T, nodeIndices, count, i) ==
  IF i >= T.nodeCapacity \/ T.st # "ok" THEN [T |-> T, nodeIndices |-> nodeIndices, count |-> count]
  ELSE IF T.nodes[i].height < 0 THEN Collect(T, nodeIndices, count, i + 1)
  ELSE IF isLeaf(T.nodes[i])
    THEN Collect(SetParent(T, i, NULL_NODE), Store(nodeIndices, count, i), count + 1, i + 1)
  ELSE Collect(freeNode(T, i), nodeIndices, count, i + 1)

\* the surface area of the merged box of working-set entries i and j (lines 631-637)
PairCost(T, nodeIndices, i, j) ==
  merge(N(T, At(nodeIndices, i)).aabb, N(T, At(nodeIndices, j)).aabb).surfaceArea

RECURSIVE ScanPairsLast(_, _, _, _, _, _)
\* the scan that keeps the last of the pairs of least cost
ScanPairsLast(T, nodeIndices, count, i, j, best) ==
  IF i >= count THEN best
  ELSE IF j >= count THEN ScanPairsLast(T, nodeIndices, count, i + 1, i + 2, best)
  ELSE LET cost == PairCost(T, nodeIndices, i, j)
       IN ScanPairsLast(T, nodeIndices, count, i, j + 1,
                        IF best.iMin = -1 \/ cost <= best.minCost
                          THEN [iMin |-> i, jMin |-> j, minCost |-> cost]
                        ELSE best)

RECURSIVE ScanPairs(_, _, _, _, _, _)
\* lines 630-645 from the pair (i, j) on; best = [iMin, jMin, minCost], where
\* iMin = -1 stands for minCost = DBL_MAX
ScanPairs(T, nodeIndices, count, i, j, best) ==
  IF i >= count THEN best
  ELSE IF j >= count THEN ScanPairs(T, nodeIndices, count, i + 1, i + 2, best)
  ELSE LET cost == PairCost(T, nodeIndices, i, j)
       IN ScanPairs(T, nodeIndices, count, i, j + 1,
                    IF best.iMin = -1 \/ cost < best.minCost
                      THEN [iMin |-> i, jMin |-> j, minCost |-> cost]
                    ELSE best)

\* lines 650-657 without the merge of the boxes of the pair (line 655)
AdoptUnmerged(T, parent, index1, index2) ==
  SetParent(SetParent(SetParent(
    HeightFromChildren(SetRight(SetLeft(T, parent, index1), parent, index2),
                       parent, index1, index2),
    parent, NULL_NODE), index1, parent), index2, parent)

\* lines 650-657 for the new node `parent`
Adopt(T, parent, index1, index2) ==
  SetParent(SetParent(SetParent(
    MergeChildren(HeightFromChildren(SetRight(SetLeft(T, parent, index1), parent, index2),
                                     parent, index1, index2),
                  parent, index1, index2),
    parent, NULL_NODE), index1, parent), index2, parent)

\* lines 649-662, a = what allocateNode returned
MergeInto(a, nodeIndices, count, iMin, jMin, index1, index2) ==
  [T |-> Adopt(a.T, a.node, index1, index2),
   nodeIndices |-> Store(Store(nodeIndices, jMin, At(nodeIndices, count - 1)), iMin, a.node)]

\* lines 647-662: merge the chosen pair under a new parent
MergePair(T, nodeIndices, count, iMin, jMin) ==
  MergeInto(allocateNode(T), nodeIndices, count, iMin, jMin,
            At(nodeIndices, iMin), At(nodeIndices, jMin))

RECURSIVE MergeLoop(_, _, _)
\* line 663 and the next round, m = what MergePair returned
MergeNext(m, count) == MergeLoop(m.T, m.nodeIndices, count - 1)

\* lines 647-663 for the pair `best` found by the scan
MergeBest(T, nodeIndices, count, best) ==
  MergeNext(MergePair(T, nodeIndices, count, best.iMin, best.jMin), count)

\* lines 626-664: [T, nodeIndices]
MergeLoop(T, nodeIndices, count) ==
  IF count <= 1 \/ T.st # "ok" THEN [T |-> T, nodeIndices |-> nodeIndices]
  ELSE MergeBest(T, nodeIndices, count,
                 ScanPairs(T, nodeIndices, count, 0, 1,
                           [iMin |-> -1, jMin |-> -1, minCost |-> 0]))

\* line 668: validate() at the end of rebuild
Validated(T) == IF T.st = "ok" /\ ~ndebug /\ ~validate(T) THEN Abort(T) ELSE T

\* line 666, m = what the merge loop returned: root = nodeIndices[0]
SetRoot(m) ==
  Validated(Taint([m.T EXCEPT !.root = At(m.nodeIndices, 0)], m.nodeIndices = <<>>))

\* lines 626-668, c = what the loop of lines 614-624 returned
MergeAll(c) == SetRoot(MergeLoop(c.T, c.nodeIndices, c.count))

\* Tree::rebuild as a function of the tree
Rebuild(T) ==
  IF T.nodeCount < 0 THEN Abort(T)
  ELSE MergeAll(Collect(T, [i \in 1..T.nodeCount |-> 0], 0, 0))

\* Tree::rebuild
rebuild ==
  /\ Alive
  /\ Return(Rebuild(ThisTree), particleMap, "rebuild", "ok", FALSE, <<>>)

(***************************************************************************)
(* Construction and the specifications                                     *)
(***************************************************************************)

\* Tree::Tree(dimension_, skinThickness_, nParticles, touchIsOverlap)
Tree(dimension_, skinThickness_, nParticles, touch) ==
  /\ dimension = dimension_
  /\ skinThickness = skinThickness_
  /\ touchIsOverlap = touch
  /\ root = NULL_NODE
  /\ nodeCount = 0
  /\ nodeCapacity = nParticles
  /\ nodes = [i \in 0..(nParticles - 1) |->
                [FreshNode EXCEPT !.next = IF i = nParticles - 1 THEN NULL_NODE ELSE i + 1,
                                  !.height = -1]]
  /\ freeList = 0
  /\ particleMap = <<>>
  /\ last = Result("Tree", "ok", FALSE, <<>>, FALSE)

\* the caller has constructed no AABB
NoAABB ==
  [lowerBound_ |-> <<>>, upperBound_ |-> <<>>, built |-> FALSE, throws |-> FALSE,
   aabb |-> DefaultAABB]

\* a tree of dimension 2, skin thickness 1 and capacity 1 with the default
\* overlap policy, in a debug and in a release build
Init ==
  /\ ndebug \in BOOLEAN
  /\ Tree(2, 1, 1, TRUE)
  /\ made = NoAABB

\* a tree without skin under either overlap policy
InitQuery ==
  /\ ndebug \in BOOLEAN
  /\ \E touch \in BOOLEAN : Tree(2, 0, 1, touch)
  /\ made = NoAABB

\* the boxes callers query with (the public members of an AABB set directly)
QueryBoxes == {MkAABB(b[1], b[2]) : b \in ValidBounds \cup { <<(<<0, 0>>), (<<4, 4>>)>> }}

Insert == \E particle \in Ids, b \in Bounds : insertParticle(particle, b[1], b[2])
Remove == \E particle \in Ids : removeParticle(particle)
RemoveAll == removeAll
Update == \E particle \in Ids, b \in Bounds, alwaysReinsert \in BOOLEAN :
            updateParticle(particle, b[1], b[2], alwaysReinsert)
RebuildTree == rebuild
QueryParticle == \E particle \in Ids : queryParticle(particle)
QueryParticleAABB == \E particle \in Ids, aabb \in QueryBoxes :
                       queryParticleAABB(particle, aabb)
QueryAABB == \E aabb \in QueryBoxes : queryAABB(aabb)
GetAABB == \E particle \in Ids : getAABB(particle)

\* the calls whose arguments meet the preconditions
ValidInsert == \E particle \in Ids \ DOMAIN particleMap, b \in ValidBounds :
                 insertParticle(particle, b[1], b[2])
ValidRemove == \E particle \in DOMAIN particleMap : removeParticle(particle)
ValidUpdate == \E particle \in DOMAIN particleMap, b \in ValidBounds,
                  alwaysReinsert \in BOOLEAN :
                 updateParticle(particle, b[1], b[2], alwaysReinsert)

\* the vectors a caller passes to the constructor of AABB
MaxLen == 2
MaxCoordinate == 1
Vectors == UNION {[1..n -> 0..MaxCoordinate] : n \in 0..MaxLen}

\* the caller is about to construct an AABB from two vectors
InitAABB ==
  /\ ndebug \in BOOLEAN
  /\ Tree(2, 1, 1, TRUE)
  /\ \E lowerBound_ \in Vectors, upperBound_ \in Vectors :
       made = [NoAABB EXCEPT !.lowerBound_ = lowerBound_, !.upperBound_ = upperBound_]

\* what the constructor did, as part of `made`
Built(c) == [made EXCEPT !.built = TRUE, !.throws = c.throws, !.aabb = c.aabb]

\* AABB aabb(lowerBound_, upperBound_)
Construct ==
  /\ ~made.built
  /\ made' = Built(AABBFromBounds(made.lowerBound_, made.upperBound_))
  /\ UNCHANGED <<tree, config, last>>

NextAABB == Construct

SpecAABB == InitAABB /\ [][NextAABB]_vars

\* Tree::validate, called by the client
Validate ==
  /\ Alive
  /\ Return(Validated(ThisTree), particleMap, "validate", "ok", FALSE, <<>>)

\* the valid mutating calls, and validate on the trees they reach
NextValidate == \/ ValidInsert
                \/ ValidRemove
                \/ RemoveAll
                \/ ValidUpdate
                \/ RebuildTree
                \/ Validate

SpecValidate == Init /\ [][NextValidate]_vars

\* the particles of the trees tall enough for balance to rotate, and the
\* bounds the caller gives them
MaxParticles == 4
Particles == 1..MaxParticles
SpreadBounds == ValidBounds \cup { <<(<<13, 0>>), (<<14, 1>>)>> }

\* the caller registers the least identifier that is not in use
InsertLeast == \E particle \in Particles \ DOMAIN particleMap, b \in SpreadBounds :
                /\ \A other \in Particles \ DOMAIN particleMap : particle <= other
                /\ insertParticle(particle, b[1], b[2])

\* the caller removes the particle registered last
RemoveLast == \E particle \in DOMAIN particleMap :
                /\ \A other \in DOMAIN particleMap : other <= particle
                /\ removeParticle(particle)

\* trees of up to MaxParticles leaves built by insertions and removals
NextBalance == \/ InsertLeast
               \/ RemoveLast

SpecBalance == Init /\ [][NextBalance]_vars

\* every mutating call, with any arguments
Next == \/ Insert
        \/ Remove
        \/ RemoveAll
        \/ Update
        \/ RebuildTree

Spec == Init /\ [][Next]_vars

\* the mutating calls with valid arguments only
NextValid == \/ ValidInsert
             \/ ValidRemove
             \/ RemoveAll
             \/ ValidUpdate
             \/ RebuildTree

SpecValid == Init /\ [][NextValid]_vars

\* trees built by insertions and removals, and the queries on them
NextQuery == \/ ValidInsert
             \/ ValidRemove
             \/ QueryParticle
             \/ QueryParticleAABB
             \/ QueryAABB

SpecQuery == InitQuery /\ [][NextQuery]_vars

\* trees built by insertions and removals, and getAABB on them
NextGet == \/ ValidInsert
           \/ ValidRemove
           \/ GetAABB

SpecGet == Init /\ [][NextGet]_vars

(***************************************************************************)
(* Properties                                                              *)
(***************************************************************************)

RECURSIVE FreeSlots(_, _, _)
\* the pool slots on the free list from freeIndex on
FreeSlots(T, freeIndex, fuel) ==
  IF freeIndex = NULL_NODE \/ fuel = 0 \/ ~InPool(T, freeIndex) THEN {}
  ELSE {freeIndex} \cup FreeSlots(T, N(T, freeIndex).next, fuel - 1)

RECURSIVE Subtree(_, _, _)
\* the pool slots reachable from `node` by left and right
Subtree(T, node, fuel) ==
  IF node = NULL_NODE \/ fuel = 0 \/ ~InPool(T, node) THEN {}
  ELSE {node} \cup Subtree(T, N(T, node).left, fuel - 1)
              \cup Subtree(T, N(T, node).right, fuel - 1)

\* the nodes of the tree
TreeNodes == Subtree(ThisTree, root, nodeCapacity + 1)

\* the leaves of the tree
TreeLeaves == {k \in TreeNodes : isLeaf(nodes[k])}

\* C1: in every state, nodeCount plus the length of the free list (following
\* next from freeList to NULL_NODE) is nodeCapacity, and a pool slot has
\* height -1 exactly when it is on the free list.
C1_PoolAccounting ==
  /\ FreeCount(ThisTree, freeList, nodeCapacity + 1) >= 0
  /\ nodeCount + FreeCount(ThisTree, freeList, nodeCapacity + 1) = nodeCapacity
  /\ \A i \in DOMAIN nodes :
       (nodes[i].height = -1) <=> (i \in FreeSlots(ThisTree, freeList, nodeCapacity + 1))

\* the pool has grown twice, a removal has returned slots to the free list,
\* and live nodes remain
C1_Witness ==
  /\ last.op = "removeParticle" /\ last.outcome = "ok"
  /\ nodeCapacity = 4
  /\ nodeCount = 1
  /\ Cardinality(FreeSlots(ThisTree, freeList, nodeCapacity + 1)) = 3

\* an AABB has one lower and one upper bound per axis of the tree
HasDimension(aabb) ==
  Len(aabb.lowerBound) = dimension /\ Len(aabb.upperBound) = dimension

\* C2: after every successful mutating call, every internal node reachable from
\* root has, on every axis, the least lower bound and the greatest upper bound
\* of its two children, and height 1 + the greater height of its children;
\* every leaf has height 0.
C2_NodeMetrics ==
  last.outcome = "ok" =>
    \A n \in TreeNodes :
      IF isLeaf(nodes[n]) THEN nodes[n].height = 0
      ELSE LET l == N(ThisTree, nodes[n].left)
               r == N(ThisTree, nodes[n].right)
           IN /\ HasDimension(nodes[n].aabb) /\ HasDimension(l.aabb) /\ HasDimension(r.aabb)
              /\ \A i \in 1..dimension :
                   /\ nodes[n].aabb.lowerBound[i] = Min(l.aabb.lowerBound[i], r.aabb.lowerBound[i])
                   /\ nodes[n].aabb.upperBound[i] = Max(l.aabb.upperBound[i], r.aabb.upperBound[i])
              /\ nodes[n].height = 1 + Max(l.height, r.height)

\* C3: after every successful mutating call the nodes reachable from root form
\* a binary tree: the root has no parent, every other reachable node is the
\* left or the right child of its parent, both children of an internal node
\* name it as parent, and left is NULL_NODE exactly when right is.
C3_TreeStructure ==
  last.outcome = "ok" =>
    /\ root # NULL_NODE => N(ThisTree, root).parent = NULL_NODE
    /\ \A m \in TreeNodes :
         /\ m # root =>
              \/ N(ThisTree, nodes[m].parent).left = m
              \/ N(ThisTree, nodes[m].parent).right = m
         /\ ~isLeaf(nodes[m]) =>
              /\ N(ThisTree, nodes[m].left).parent = m
              /\ N(ThisTree, nodes[m].right).parent = m
         /\ (nodes[m].left = NULL_NODE) <=> (nodes[m].right = NULL_NODE)

Range(s) == {s[i] : i \in DOMAIN s}

\* the stored (fattened) AABB of the leaf of a registered particle
Stored(particle) == nodes[particleMap[particle]].aabb

\* two boxes overlap: on every axis the intervals meet, in a point at least
\* when touching counts and in more than a point when it does not
Touches(a, b, touch) ==
  \A i \in 1..dimension :
     IF touch THEN a.lowerBound[i] <= b.upperBound[i] /\ b.lowerBound[i] <= a.upperBound[i]
     ELSE a.lowerBound[i] < b.upperBound[i] /\ b.lowerBound[i] < a.upperBound[i]

\* the registered particles whose stored AABB overlaps aabb
Hits(aabb) == {b \in DOMAIN particleMap : Touches(Stored(b), aabb, touchIsOverlap)}

\* C5: for every registered particle a, query(a) returns normally and never
\* contains a; every other registered particle b whose stored AABB overlaps
\* that of a under touchIsOverlap is in query(a) (and so a is in query(b)).
C5_QueryParticle ==
  [][\A a \in DOMAIN particleMap :
       (last'.op = "query(particle)" /\ queryParticle(a)) =>
         /\ last'.outcome = "ok"
         /\ a \notin Range(last'.particles)
         /\ \A b \in Hits(Stored(a)) \ {a} : b \in Range(last'.particles)]_vars

\* query(a) has just returned the other particle, whose box only touches a's
C5_Witness ==
  /\ last.op = "query(particle)" /\ last.outcome = "ok"
  /\ Len(last.particles) = 1
  /\ Cardinality(DOMAIN particleMap) = 2
  /\ \E a, b \in DOMAIN particleMap :
       /\ a # b
       /\ last.particles = <<b>>
       /\ Touches(Stored(a), Stored(b), TRUE)
       /\ ~Touches(Stored(a), Stored(b), FALSE)

\* C6: query(aabb) returns exactly the registered particles whose stored AABB
\* overlaps aabb under touchIsOverlap, each once, whatever identifiers the
\* caller chose (0xffffffff included).
C6_QueryAABB ==
  [][\A aabb \in QueryBoxes :
       queryAABB(aabb) =>
         /\ last'.outcome = "ok"
         /\ Range(last'.particles) = Hits(aabb)
         /\ Len(last'.particles) = Cardinality(Hits(aabb))]_vars

\* box `outer` contains the box [lowerBound, upperBound]
Encloses(outer, lowerBound, upperBound) ==
  \A i \in 1..dimension :
     outer.lowerBound[i] <= lowerBound[i] /\ upperBound[i] <= outer.upperBound[i]

\* C7: updateParticle on a registered particle with valid bounds returns false
\* exactly when alwaysReinsert is false and the stored AABB of the leaf
\* contains [lowerBound, upperBound]; when it returns false the tree, the pool
\* and particleMap are unchanged.
C7_UpdateReturnsFalse ==
  [][\A particle \in DOMAIN particleMap, b \in ValidBounds, alwaysReinsert \in BOOLEAN :
       updateParticle(particle, b[1], b[2], alwaysReinsert) =>
         /\ (last'.outcome = "ok" /\ ~last'.ret)
              <=> (~alwaysReinsert /\ Encloses(Stored(particle), b[1], b[2]))
         /\ (last'.outcome = "ok" /\ ~last'.ret) => UNCHANGED tree]_vars

\* C8: when updateParticle returns true the particle is mapped to the same
\* leaf and the AABB of the leaf is, on every axis i, from
\* lowerBound[i] - s * (upperBound[i] - lowerBound[i]) to
\* upperBound[i] + s * (upperBound[i] - lowerBound[i]), s the skin thickness.
C8_UpdateReturnsTrue ==
  [][\A particle \in DOMAIN particleMap, b \in ValidBounds, alwaysReinsert \in BOOLEAN :
       (updateParticle(particle, b[1], b[2], alwaysReinsert)
          /\ last'.outcome = "ok" /\ last'.ret) =>
         /\ particle \in DOMAIN particleMap'
         /\ particleMap'[particle] = particleMap[particle]
         /\ nodes'[particleMap[particle]].aabb.lowerBound =
              [i \in 1..dimension |-> b[1][i] - skinThickness * (b[2][i] - b[1][i])]
         /\ nodes'[particleMap[particle]].aabb.upperBound =
              [i \in 1..dimension |-> b[2][i] + skinThickness * (b[2][i] - b[1][i])]]_vars

\* C9: insertParticle with vectors of the right dimension and some
\* lowerBound[i] > upperBound[i] reports an error and leaves nodeCount,
\* nodeCapacity, freeList, root, every node and particleMap as they were.
C9_InvertedInsertNoChange ==
  [][\A particle \in Ids, b \in InvertedBounds :
       insertParticle(particle, b[1], b[2]) =>
         /\ last'.outcome = "invalid_argument"
         /\ UNCHANGED tree]_vars

\* C10: getAABB of a particle that is not registered reports an error and
\* leaves the tree as it was; particleMap gets no new key.
C10_GetAABBUnknown ==
  [][\A particle \in Ids \ DOMAIN particleMap :
       getAABB(particle) =>
         /\ last'.outcome = "invalid_argument"
         /\ UNCHANGED tree]_vars

\* C11: updateParticle on a registered particle reports an error and leaves
\* the tree unchanged whenever lowerBound or upperBound (one of them at least)
\* has a length other than the dimension of the tree.
C11_UpdateWrongDimension ==
  [][\A particle \in DOMAIN particleMap, b \in WrongDimension, alwaysReinsert \in BOOLEAN :
       updateParticle(particle, b[1], b[2], alwaysReinsert) =>
         /\ last'.outcome = "invalid_argument"
         /\ UNCHANGED tree]_vars

\* some axis both vectors have is inverted
Inverted(lowerBound, upperBound) ==
  \E i \in (DOMAIN lowerBound) \cap (DOMAIN upperBound) : lowerBound[i] > upperBound[i]

\* C12: AABB(lowerBound_, upperBound_) fails whenever some lowerBound_[i] >
\* upperBound_[i] or the vectors differ in length; when it succeeds the
\* bounds of the AABB are the arguments and lowerBound[i] <= upperBound[i]
\* on every axis.
C12_AABBFromBounds ==
  made.built =>
    /\ (Inverted(made.lowerBound_, made.upperBound_)
          \/ Len(made.lowerBound_) # Len(made.upperBound_)) => made.throws
    /\ ~made.throws =>
         /\ made.aabb.lowerBound = made.lowerBound_
         /\ made.aabb.upperBound = made.upperBound_
         /\ ~Inverted(made.aabb.lowerBound, made.aabb.upperBound)

\* the pool, the metrics and the structure of the tree are as the invariants
\* of the tree require
WellFormed == C1_PoolAccounting /\ C2_NodeMetrics /\ C3_TreeStructure

\* the boxes a caller probes the tree with
ProbeBoxes == QueryBoxes \cup {MkAABB(<<3, 0>>, <<4, 1>>), MkAABB(<<5, 5>>, <<6, 6>>)}

\* the tree a step leaves, as a value
TreeAfter ==
  [root |-> root', nodes |-> nodes', nodeCount |-> nodeCount',
   nodeCapacity |-> nodeCapacity', freeList |-> freeList', st |-> "ok", ub |-> FALSE]

\* the set of ids query(aabb) finds in the tree T
FoundIn(T, aabb) == Range(query(T, NULL_NODE, aabb).particles)

\* the set of ids query(aabb) finds in the tree
Found(aabb) == FoundIn(ThisTree, aabb)

\* C13: rebuild() on a tree that holds at least one particle leaves
\* particleMap unchanged, leaves the index, the particle and the AABB of
\* every leaf unchanged, gives a tree whose structure, heights, merged AABBs
\* and pool count are valid, and changes the set of ids query returns for no
\* probe box.
C13_RebuildPreserves ==
  [][(last'.op = "rebuild" /\ DOMAIN particleMap # {} /\ rebuild) =>
       /\ last'.outcome = "ok"
       /\ particleMap' = particleMap
       /\ TreeLeaves' = TreeLeaves
       /\ \A k \in TreeLeaves :
            /\ nodes'[k].particle = nodes[k].particle
            /\ nodes'[k].aabb = nodes[k].aabb
       /\ WellFormed'
       /\ \A aabb \in ProbeBoxes : FoundIn(TreeAfter, aabb) = Found(aabb)]_vars

\* rebuild has returned on a tree of three particles, two internal nodes
\* freed and allocated again
C13_Witness ==
  /\ last.op = "rebuild" /\ last.outcome = "ok" /\ ~last.ub
  /\ DOMAIN particleMap = Ids
  /\ Cardinality(TreeNodes) = 5
  /\ Found(MkAABB(<<3, 0>>, <<4, 1>>)) # {}
  /\ Found(MkAABB(<<3, 0>>, <<4, 1>>)) # DOMAIN particleMap \ {NULL_NODE}

\* C14: validate() fails no assertion in a state reached by valid calls, the
\* freshly constructed tree and the tree emptied by removeParticle or
\* removeAll included.
C14_ValidatePasses == last.op = "validate" => last.outcome = "ok"

\* C15: on an empty tree query(aabb) and query(particle, aabb) return the
\* empty list and read no pool slot at NULL_NODE or beyond nodeCapacity.
\* (A query leaves the tree as it is, so the tree of the state is the tree
\* the query ran on.)
C15_QueryEmptyTree ==
  (root = NULL_NODE /\ last.op \in {"query(aabb)", "query(particle, aabb)"}) =>
    /\ last.outcome = "ok"
    /\ last.particles = <<>>
    /\ ~last.ub

\* the tree after insertParticle(particle, b[1], b[2]) and then
\* removeParticle(particle), ib = what the body of insertParticle returned
RoundTripOf(ib) == RemoveNode(ib.T, ib.node)
RoundTrip(particle, b) == RoundTripOf(InsertBody(ThisTree, particle, b[1], b[2]))

\* the tree T2 the two calls leave has the nodeCount and the leaves of the
\* tree before them
Restored(T2) ==
  /\ T2.st = "ok"
  /\ ~T2.ub
  /\ T2.nodeCount = nodeCount
  /\ \A p \in DOMAIN particleMap :
       /\ isLeaf(N(T2, particleMap[p]))
       /\ N(T2, particleMap[p]).particle = p
       /\ N(T2, particleMap[p]).aabb = Stored(p)
       /\ particleMap[p] \in Subtree(T2, T2.root, T2.nodeCapacity + 1)

\* insertParticle returned normally (ib) and the two calls restore the state
RestoredFrom(particle, ib) ==
  /\ ~ib.throws
  /\ Erase((particle :> ib.node) @@ particleMap, particle) = particleMap
  /\ Restored(RoundTripOf(ib))

\* C16: from any state, insertParticle of an unregistered id followed at once
\* by removeParticle of that id restores nodeCount and nParticles(), and
\* leaves the registered ids and the AABB of every remaining leaf as before.
C16_InsertRemoveRoundTrip ==
  Alive =>
    \A particle \in Ids \ DOMAIN particleMap, b \in ValidBounds :
       RestoredFrom(particle, InsertBody(ThisTree, particle, b[1], b[2]))

\* a particle has just been removed from a tree of three, the pool being
\* at capacity 8; the round trip of the removed id is possible again
C16_Witness ==
  /\ last.op = "removeParticle" /\ last.outcome = "ok"
  /\ Cardinality(DOMAIN particleMap) = 2
  /\ nodeCount = 3
  /\ nodeCapacity = 8
  /\ \E particle \in Ids \ DOMAIN particleMap, b \in ValidBounds :
       RoundTrip(particle, b).nodeCount = nodeCount

\* C17: removeAll() leaves the tree empty: root is NULL_NODE, nodeCount is 0,
\* particleMap is empty, every pool slot is on the free list exactly once,
\* and nodeCapacity is unchanged.
C17_RemoveAllEmpties ==
  [][(last'.op = "removeAll" /\ removeAll) =>
       /\ last'.outcome = "ok"
       /\ root' = NULL_NODE
       /\ nodeCount' = 0
       /\ DOMAIN particleMap' = {}
       /\ nodeCapacity' = nodeCapacity
       /\ FreeSlots(TreeAfter, freeList', nodeCapacity' + 1) = 0..(nodeCapacity' - 1)
       /\ FreeCount(TreeAfter, freeList', nodeCapacity' + 1) = nodeCapacity']_vars

\* boxes a and b share a boundary on some axis and meet on every axis
Abutting(a, b) ==
  /\ \E i \in 1..dimension :
       a.upperBound[i] = b.lowerBound[i] \/ b.upperBound[i] = a.lowerBound[i]
  /\ \A i \in 1..dimension :
       a.lowerBound[i] <= b.upperBound[i] /\ b.lowerBound[i] <= a.upperBound[i]

\* particles 1 and 2 are registered with the boxes (0,0)-(1,1) and (1,0)-(2,1)
TwoSquares ==
  /\ DOMAIN particleMap = {1, 2}
  /\ Stored(1) = MkAABB(<<0, 0>>, <<1, 1>>)
  /\ Stored(2) = MkAABB(<<1, 0>>, <<2, 1>>)

\* C18: boxes that share a boundary and otherwise overlap are overlapping for
\* overlaps, and so for query, exactly when touchIsOverlap is true; with skin
\* 0 and 1:(0,0)-(1,1), 2:(1,0)-(2,1) registered, query(1) is <<2>> when
\* touchIsOverlap is true and empty when it is false.
C18_TouchingBoxes ==
  [][\A a \in DOMAIN particleMap :
       (last'.op = "query(particle)" /\ queryParticle(a)) =>
         /\ last'.outcome = "ok"
         /\ \A b \in DOMAIN particleMap \ {a} :
              Abutting(Stored(a), Stored(b)) =>
                /\ overlaps(Stored(a), Stored(b), touchIsOverlap) <=> touchIsOverlap
                /\ (b \in Range(last'.particles)) <=> touchIsOverlap
         /\ (TwoSquares /\ a = 1) =>
              last'.particles = IF touchIsOverlap THEN <<2>> ELSE <<>>]_vars

\* query has returned the empty list on the two squares that share an edge,
\* touching not counting as overlap
C18_Witness ==
  /\ last.op = "query(particle)" /\ last.outcome = "ok"
  /\ ~touchIsOverlap
  /\ skinThickness = 0
  /\ TwoSquares
  /\ Abutting(Stored(1), Stored(2))
  /\ last.particles = <<>>

\* g is the pool after the growth of an exhausted pool of capacity
\* nodeCapacity: twice the capacity, the new slots and only they on the free
\* list, with height -1, and the old slots as they were
Doubled(g) ==
  /\ g.st = "ok" /\ ~g.ub
  /\ g.nodeCapacity = 2 * nodeCapacity
  /\ DOMAIN g.nodes = 0..(2 * nodeCapacity - 1)
  /\ FreeSlots(g, g.freeList, g.nodeCapacity + 1) = nodeCapacity..(2 * nodeCapacity - 1)
  /\ FreeCount(g, g.freeList, g.nodeCapacity + 1) = nodeCapacity
  /\ \A i \in nodeCapacity..(2 * nodeCapacity - 1) : g.nodes[i].height = -1
  /\ \A i \in 0..(nodeCapacity - 1) : g.nodes[i] = nodes[i]
  /\ \A p \in DOMAIN particleMap : N(g, particleMap[p]) = nodes[particleMap[p]]

\* a = what allocateNode returned on an exhausted pool: the first new slot,
\* the old slots as they were
FirstNew(a) ==
  /\ a.node = nodeCapacity
  /\ a.T.nodeCount = nodeCount + 1
  /\ \A i \in 0..(nodeCapacity - 1) : a.T.nodes[i] = nodes[i]

\* the registered particles are on the leaves they were on, with their boxes
LeavesKept ==
  \A p \in DOMAIN particleMap :
     p \in DOMAIN particleMap' =>
       /\ particleMap'[p] = particleMap[p]
       /\ nodes'[particleMap[p]].particle = nodes[particleMap[p]].particle
       /\ nodes'[particleMap[p]].aabb = nodes[particleMap[p]].aabb
       /\ nodes'[particleMap[p]].height = 0

\* C19: allocateNode on an empty free list doubles nodeCapacity from C to 2C,
\* threads exactly the slots C..2C-1 onto the free list with height -1 and
\* changes no field of a slot in 0..C-1; a call during which the pool grows
\* leaves every particleMap entry on the same leaf.
C19_GrowthKeepsIndices ==
  [][/\ (Alive /\ freeList = NULL_NODE) =>
          /\ Doubled(Grown(ThisTree))
          /\ FirstNew(allocateNode(ThisTree))
     /\ (last'.op = "insertParticle" /\ last'.outcome = "ok"
           /\ nodeCapacity' # nodeCapacity) =>
          /\ nodeCapacity' \in {2 * nodeCapacity, 4 * nodeCapacity}
          /\ \A i \in DOMAIN nodes' \ DOMAIN nodes :
               (nodes'[i].height = -1) <=>
                 (i \in FreeSlots(TreeAfter, freeList', nodeCapacity' + 1))
          /\ LeavesKept]_vars

\* the pool, grown from capacity 1 to 4 by two insertions, is exhausted: the
\* next allocateNode grows it to capacity 8
C19_Witness ==
  /\ last.op = "insertParticle"
  /\ nodeCapacity = 4
  /\ nodeCount = 4
  /\ freeList = NULL_NODE
  /\ Cardinality(DOMAIN particleMap) = 2
  /\ Doubled(Grown(ThisTree))

\* C20: insertParticle with a registered id, or with a lowerBound or an
\* upperBound whose length is not the dimension, reports an error and leaves
\* nodeCount, the free list, root, every node and particleMap unchanged.
C20_InsertRejected ==
  [][\A particle \in Ids, b \in Bounds :
       (/\ last'.op = "insertParticle"
        /\ \/ particle \in DOMAIN particleMap
           \/ Len(b[1]) # dimension
           \/ Len(b[2]) # dimension
        /\ insertParticle(particle, b[1], b[2])) =>
         /\ last'.outcome = "invalid_argument"
         /\ UNCHANGED tree]_vars

\* an insertParticle has just been rejected on a tree in which every id is
\* registered: the five nodes of the three particles are all there is
C20_Witness ==
  /\ last.op = "insertParticle" /\ last.outcome = "invalid_argument"
  /\ DOMAIN particleMap = Ids
  /\ nodeCount = 5
  /\ Cardinality(TreeNodes) = 5

\* the boxes insertParticle gives to insertLeaf for the bounds of SpreadBounds
LeafBoxes ==
  {Fatten(b[1], b[2], [i \in 1..dimension |-> b[2][i] - b[1][i]]) : b \in SpreadBounds}

\* area(merge(a, b))
MergedArea(a, b) == merge(a, b).surfaceArea

\* cost = 2 * area(combined) at the internal node I
CostAt(leafAABB, I) == 2 * MergedArea(nodes[I].aabb, leafAABB)

\* inheritance = 2 * (area(combined) - area(I.aabb))
Inheritance(leafAABB, I) ==
  2 * (MergedArea(nodes[I].aabb, leafAABB) - nodes[I].aabb.surfaceArea)

\* cost_C for the child C of I
CostInto(leafAABB, I, C) ==
  IF isLeaf(nodes[C])
    THEN MergedArea(leafAABB, nodes[C].aabb) + Inheritance(leafAABB, I)
  ELSE MergedArea(leafAABB, nodes[C].aabb) - nodes[C].aabb.surfaceArea
         + Inheritance(leafAABB, I)

\* cost < cost_L and cost < cost_R
StopsAt(leafAABB, I) ==
  /\ CostAt(leafAABB, I) < CostInto(leafAABB, I, nodes[I].left)
  /\ CostAt(leafAABB, I) < CostInto(leafAABB, I, nodes[I].right)

RECURSIVE Visited(_, _, _)
\* the internal nodes the loop of lines 771-824 visits from `index` on
Visited(leafAABB, index, fuel) ==
  IF fuel = 0 \/ isLeaf(nodes[index]) THEN {}
  ELSE {index} \cup
       (IF DescendStep(ThisTree, leafAABB, index).break THEN {}
        ELSE Visited(leafAABB, DescendStep(ThisTree, leafAABB, index).index, fuel - 1))

\* C21: at an internal node the descent of insertLeaf visits and does not
\* stop at, equal costs of the two children send the descent into the left
\* child.
C21_TieGoesLeft ==
  (Alive /\ root # NULL_NODE) =>
    \A leafAABB \in LeafBoxes :
      \A I \in Visited(leafAABB, root, nodeCapacity) :
        (/\ ~StopsAt(leafAABB, I)
         /\ CostInto(leafAABB, I, nodes[I].left) = CostInto(leafAABB, I, nodes[I].right)) =>
          DescendStep(ThisTree, leafAABB, I).index = nodes[I].left

\* the node the descent of insertLeaf ends at for the leaf box, from root
SiblingFor(leafAABB) == Descend(ThisTree, leafAABB, root, nodeCapacity + 1, FALSE)

\* C22: with cost, inheritance and cost_C as defined above, the descent of
\* insertLeaf stops at a visited internal node I, which becomes the sibling,
\* if and only if cost < cost_L and cost < cost_R; the sibling chosen is such
\* a node or a leaf of the tree.
C22_DescentStops ==
  (Alive /\ root # NULL_NODE) =>
    \A leafAABB \in LeafBoxes :
      /\ SiblingFor(leafAABB).st = "ok"
      /\ SiblingFor(leafAABB).index \in TreeNodes
      /\ \A I \in Visited(leafAABB, root, nodeCapacity) :
           (SiblingFor(leafAABB).index = I) <=> StopsAt(leafAABB, I)
      /\ \/ isLeaf(nodes[SiblingFor(leafAABB).index])
         \/ /\ SiblingFor(leafAABB).index \in Visited(leafAABB, root, nodeCapacity)
            /\ StopsAt(leafAABB, SiblingFor(leafAABB).index)

\* three particles are in the tree and an insertion is possible whose descent
\* passes the root and stops at the internal node below it, and another one
\* whose descent ends at a leaf
C22_Witness ==
  /\ Alive /\ last.op = "insertParticle"
  /\ Cardinality(DOMAIN particleMap) = 3
  /\ \E leafAABB \in LeafBoxes :
       /\ Cardinality(Visited(leafAABB, root, nodeCapacity)) = 2
       /\ ~isLeaf(nodes[SiblingFor(leafAABB).index])
       /\ SiblingFor(leafAABB).index # root
  /\ \E leafAABB \in LeafBoxes : isLeaf(nodes[SiblingFor(leafAABB).index])

\* lines 768-857 for a new leaf with the box: the tree in which the walk back
\* up starts and the index it starts at
WalkStartIn(T, leafAABB) ==
  LET a == allocateNode(T)
      T1 == SetHeight(SetAABB(a.T, a.node, leafAABB), a.node, 0)
      T2 == NewParent(T1, a.node, leafAABB,
                      Descend(T1, leafAABB, T1.root, T1.nodeCapacity + 1, FALSE).index)
  IN [T |-> T2, index |-> N(T2, a.node).parent]

WalkStart(leafAABB) == WalkStartIn(ThisTree, leafAABB)

\* lines 255-293 for a new leaf with the box, in the tree T
InsertedIn(T, leafAABB) ==
  LET a == allocateNode(T)
  IN insertLeaf(SetHeight(SetAABB(a.T, a.node, leafAABB), a.node, 0), a.node)

\* lines 886-905 for a leaf below the root's children: the tree in which the
\* walk of removeLeaf starts and the index it starts at
RemovalStart(T, leaf) ==
  LET parent == N(T, leaf).parent
      grandParent == N(T, parent).parent
      sibling == IF N(T, parent).left = leaf THEN N(T, parent).right ELSE N(T, parent).left
  IN [T |-> freeNode(SetParent(SwapChild(T, grandParent, parent, sibling),
                               sibling, grandParent), parent),
      index |-> grandParent]

\* the leaves of T that have a grandparent
DeepLeaves(T) ==
  {i \in DOMAIN T.nodes : /\ N(T, i).height = 0
                          /\ N(T, i).parent # NULL_NODE
                          /\ N(T, N(T, i).parent).parent # NULL_NODE}

\* lines 861-871, b = what balance returned: the tree and the next index
RoundAfter(b) ==
  LET T2 == MergeChildren(HeightFromChildren(b.T, b.node, N(b.T, b.node).left,
                                             N(b.T, b.node).right),
                          b.node, N(b.T, b.node).left, N(b.T, b.node).right)
  IN [T |-> T2, index |-> N(T2, b.node).parent]

\* aabb = merge of the children and height = 1 + max of their heights
MetricsFromChildren(T, i) ==
  /\ N(T, i).aabb = merge(N(T, N(T, i).left).aabb, N(T, N(T, i).right).aabb)
  /\ N(T, i).height = 1 + Max(N(T, N(T, i).left).height, N(T, N(T, i).right).height)

\* T2 is T with the child H of n hoisted: `stay` remains under H and `move`
\* goes under n into the slot of H
Hoisted(T, n, H, stay, move, T2) ==
  /\ T2.st = "ok" /\ ~T2.ub
  /\ N(T2, H).parent = N(T, n).parent
  /\ IF N(T, n).parent = NULL_NODE THEN T2.root = H
     ELSE /\ T2.root = T.root
          /\ IF N(T, N(T, n).parent).left = n
               THEN /\ N(T2, N(T, n).parent).left = H
                    /\ N(T2, N(T, n).parent).right = N(T, N(T, n).parent).right
             ELSE /\ N(T2, N(T, n).parent).right = H
                  /\ N(T2, N(T, n).parent).left = N(T, N(T, n).parent).left
  /\ N(T2, n).parent = H
  /\ {N(T2, H).left, N(T2, H).right} = {n, stay}
  /\ N(T2, stay).parent = H
  /\ IF N(T, n).right = H
       THEN N(T2, n).right = move /\ N(T2, n).left = N(T, n).left
     ELSE N(T2, n).left = move /\ N(T2, n).right = N(T, n).right
  /\ N(T2, move).parent = n
  /\ MetricsFromChildren(T2, n)
  /\ MetricsFromChildren(T2, H)
  /\ T2.nodeCount = T.nodeCount /\ T2.nodeCapacity = T.nodeCapacity
  /\ T2.freeList = T.freeList
  /\ \A i \in DOMAIN T.nodes \ {n, H, move, N(T, n).parent} : T2.nodes[i] = T.nodes[i]

\* what C23 says of b = balance(T, n)
BalanceAsClaimed(T, n, b) ==
  LET L == N(T, n).left
      R == N(T, n).right
  IN IF \/ isLeaf(N(T, n))
        \/ N(T, n).height < 2
        \/ N(T, R).height - N(T, L).height \in -1..1
       THEN b.node = n /\ b.T = T
     ELSE LET H == IF N(T, R).height > N(T, L).height THEN R ELSE L
              stay == IF N(T, N(T, H).left).height > N(T, N(T, H).right).height
                        THEN N(T, H).left ELSE N(T, H).right
              move == IF stay = N(T, H).left THEN N(T, H).right ELSE N(T, H).left
          IN b.node = H /\ Hoisted(T, n, H, stay, move, b.T)

RECURSIVE WalkAsClaimed(_, _, _), RoundAsClaimed(_, _, _, _)
\* every call of balance in the walk of lines 858-872 from `index` is as claimed
WalkAsClaimed(T, index, fuel) ==
  \/ index = NULL_NODE
  \/ /\ fuel > 0
     /\ RoundAsClaimed(T, index, balance(T, index), fuel)

\* the walk from s = [T, index]
WalkAsClaimedFrom(s, fuel) == WalkAsClaimed(s.T, s.index, fuel)

\* one round of the walk, b = what balance returned, and the rounds after it
RoundAsClaimed(T, index, b, fuel) ==
  /\ BalanceAsClaimed(T, index, b)
  /\ WalkAsClaimedFrom(RoundAfter(b), fuel - 1)

\* every call of balance in the removal of any leaf of T is as claimed
RemovalsAsClaimed(T) ==
  \A leaf \in DeepLeaves(T) :
    WalkAsClaimedFrom(RemovalStart(T, leaf), 2 * T.nodeCapacity + 2)

RECURSIVE Rotations(_, _, _), RotationsWith(_, _, _, _)
\* the rotations of the walk from `index`: which child was hoisted, and
\* whether its two children had equal heights
Rotations(T, index, fuel) ==
  IF index = NULL_NODE \/ fuel = 0 THEN {}
  ELSE RotationsWith(T, index, balance(T, index), fuel)

\* the rotations of the walk from s = [T, index]
RotationsFrom(s, fuel) == Rotations(s.T, s.index, fuel)

\* b = what balance returned for `index`
RotationsWith(T, index, b, fuel) ==
  (IF b.node = index THEN {}
   ELSE {<<IF b.node = N(T, index).right THEN "right" ELSE "left",
           N(T, N(T, b.node).left).height = N(T, N(T, b.node).right).height>>})
  \cup RotationsFrom(RoundAfter(b), fuel - 1)

\* the rotations in the removals of the leaves of T
RemovalRotations(T) ==
  UNION {RotationsFrom(RemovalStart(T, leaf), 2 * T.nodeCapacity + 2) : leaf \in DeepLeaves(T)}

\* C23: balance(n) returns n and changes nothing when n is a leaf, lower than
\* 2 or has children whose heights differ by at most one; otherwise the
\* taller child H takes the place of n, n goes under H, the taller child of H
\* (the right one on equal heights) stays, the other moves under n into the
\* slot of H, the parents are set, n and then H get the merged box and the
\* height of their children, and H is returned.  Checked for every call of
\* balance in the walk of insertLeaf for every leaf that can be inserted.
C23_BalanceHoists ==
  (Alive /\ root # NULL_NODE) =>
    \A leafAABB \in LeafBoxes :
      /\ WalkAsClaimedFrom(WalkStart(leafAABB), 2 * nodeCapacity + 2)
      /\ Cardinality(DOMAIN particleMap) = MaxParticles =>
           RemovalsAsClaimed(InsertedIn(InsertedIn(ThisTree, leafAABB), leafAABB))

\* a tree of four particles that has been rotated; one more insertion hoists
\* a left child whose children are equally high, and two more followed by a
\* removal hoist a right child whose children are equally high
C23_Witness ==
  /\ Alive /\ last.op = "insertParticle"
  /\ Cardinality(DOMAIN particleMap) = MaxParticles
  /\ nodes[root].height = 2
  /\ \E leafAABB \in LeafBoxes :
       <<"left", TRUE>> \in RotationsFrom(WalkStart(leafAABB), 2 * nodeCapacity + 2)
  /\ \E leafAABB \in LeafBoxes :
       <<"right", TRUE>> \in
         RemovalRotations(InsertedIn(InsertedIn(ThisTree, leafAABB), leafAABB))

\* the pairs (i, j), i < j, of a working set of `count` entries
Pairs(count) == {p \in (0..(count - 1)) \X (0..(count - 1)) : p[1] < p[2]}

\* the pair of least merged surface area, with the smallest i and then the
\* smallest j among those of least area
FirstLeast(T, W, count) ==
  CHOOSE p \in Pairs(count) :
    \A q \in Pairs(count) :
      \/ PairCost(T, W, p[1], p[2]) < PairCost(T, W, q[1], q[2])
      \/ /\ PairCost(T, W, p[1], p[2]) = PairCost(T, W, q[1], q[2])
         /\ p[1] < q[1] \/ (p[1] = q[1] /\ p[2] <= q[2])

\* the working set rebuild starts its merge loop with: [T, nodeIndices, count]
WorkingSet == Collect(ThisTree, [i \in 1..nodeCount |-> 0], 0, 0)

\* m = [T, nodeIndices] after the round that merged the pair i, j of W
Merged(T, W, count, i, j, m) ==
  /\ \A k \in 0..(count - 1) : At(W, k) # At(m.nodeIndices, i)
  /\ N(m.T, At(m.nodeIndices, i)).left = At(W, i)
  /\ N(m.T, At(m.nodeIndices, i)).right = At(W, j)
  /\ \A k \in (0..(count - 2)) \ {i} :
       At(m.nodeIndices, k) = IF k = j THEN At(W, count - 1) ELSE At(W, k)
  /\ m.T.nodeCount = T.nodeCount + 1

RECURSIVE RoundsAsClaimed(_, _, _), RoundChosen(_, _, _, _), RoundMerged(_, _, _, _, _)
\* every round of the loop of lines 626-664 from this working set on
RoundsAsClaimed(T, W, count) ==
  \/ count <= 1
  \/ RoundChosen(T, W, count,
                 ScanPairs(T, W, count, 0, 1, [iMin |-> -1, jMin |-> -1, minCost |-> 0]))

\* best = the pair the scan of lines 630-645 found
RoundChosen(T, W, count, best) ==
  /\ <<best.iMin, best.jMin>> = FirstLeast(T, W, count)
  /\ RoundMerged(T, W, count, best, MergePair(T, W, count, best.iMin, best.jMin))

\* m = what lines 647-662 made of the pair
RoundMerged(T, W, count, best, m) ==
  /\ Merged(T, W, count, best.iMin, best.jMin, m)
  /\ RoundsAsClaimed(m.T, m.nodeIndices, count - 1)

\* the rounds from c = [T, nodeIndices, count] on, and their number
RebuildAsClaimed(c) ==
  /\ RoundsAsClaimed(c.T, c.nodeIndices, c.count)
  /\ c.count >= 1 => Rebuild(ThisTree).nodeCount = c.T.nodeCount + c.count - 1

\* C24: every round of rebuild's merge loop merges the pair (i, j), i < j, of
\* least merged surface area, the one with the smallest i and then the
\* smallest j among equals; the new node gets W[i] as left and W[j] as right
\* child, W[j] is replaced by the last entry, W[i] by the new node, and the
\* working set shrinks by one.
C24_RebuildMergesLeast ==
  Alive => RebuildAsClaimed(WorkingSet)

\* rebuild has run on three particles with equal boxes: in another rebuild
\* all three pairs cost the same, and the pair (0, 1) is not the last entry
C24_Witness ==
  /\ Alive /\ last.op = "rebuild"
  /\ WorkingSet.count = 3
  /\ PairCost(WorkingSet.T, WorkingSet.nodeIndices, 0, 1)
       = PairCost(WorkingSet.T, WorkingSet.nodeIndices, 0, 2)
  /\ PairCost(WorkingSet.T, WorkingSet.nodeIndices, 0, 1)
       = PairCost(WorkingSet.T, WorkingSet.nodeIndices, 1, 2)

\* C25: rebuild on an empty tree (nodeCount = 0, no particles) leaves root at
\* NULL_NODE, reads no element of the empty working set and leaves
\* nodeCount, the free list and nodeCapacity unchanged.
C25_RebuildEmpty ==
  [][(/\ nodeCount = 0
      /\ particleMap = <<>>
      /\ last'.op = "rebuild"
      /\ rebuild) =>
       /\ last'.outcome = "ok" /\ ~last'.ub
       /\ root' = NULL_NODE
       /\ UNCHANGED <<nodeCount, freeList, nodeCapacity>>]_vars

\* nodeCount is 0 without particles and 2 * nParticles() - 1 otherwise, and
\* every pool slot that is not on the free list is a node of the tree
NoNodeLeaked ==
  /\ nodeCount = IF DOMAIN particleMap = {} THEN 0
                 ELSE 2 * Cardinality(DOMAIN particleMap) - 1
  /\ \A i \in DOMAIN nodes :
       i \in FreeSlots(ThisTree, freeList, nodeCapacity + 1) \/ i \in TreeNodes

\* C26: after any sequence of successful insertParticle, removeParticle,
\* updateParticle, removeAll and rebuild calls nodeCount is 0 when there is
\* no particle and 2 * nParticles() - 1 otherwise, no node is leaked, and
\* updateParticle and rebuild change neither nodeCount nor nodeCapacity.
C26_NodeCount ==
  /\ []NoNodeLeaked
  /\ [][last'.op \in {"updateParticle", "rebuild"} =>
          UNCHANGED <<nodeCount, nodeCapacity>>]_vars

\* updateParticle has taken the leaf of one of three particles out of the
\* tree and inserted it again
C26_Witness ==
  /\ last.op = "updateParticle" /\ last.outcome = "ok" /\ last.ret
  /\ Cardinality(DOMAIN particleMap) = 3
  /\ nodeCount = 5
  /\ nodeCapacity = 8

RECURSIVE ReachesTop(_, _)
\* following parent from node i reaches NULL_NODE within `fuel` steps
ReachesTop(i, fuel) ==
  \/ i = NULL_NODE
  \/ fuel > 0 /\ i \in DOMAIN nodes /\ ReachesTop(nodes[i].parent, fuel - 1)

\* the leaves of T
LeavesOf(T) == {i \in DOMAIN T.nodes : N(T, i).height = 0}

\* every query and every removal of a leaf in the tree T runs to its end
CallsEndIn(T) ==
  /\ T.st = "ok"
  /\ \A aabb \in LeafBoxes : query(T, NULL_NODE, aabb).st = "ok"
  /\ \A leaf \in LeavesOf(T) :
       /\ removeLeaf(T, leaf).st = "ok"
       /\ query(T, N(T, leaf).particle, N(T, leaf).aabb).st = "ok"

\* C27: every public operation started in a state reached by valid
\* operations terminates: the call that led to the state has returned, the
\* parent chain of every node of the tree ends at NULL_NODE, and the descent
\* and the walk of an insertion, the walk of a removal, the stack loop of a
\* query and the loops of rebuild run to their end from the state.
C27_Terminates ==
  /\ last.outcome # "hang"
  /\ \A i \in TreeNodes : ReachesTop(i, nodeCapacity)
  /\ Alive =>
       /\ CallsEndIn(ThisTree)
       /\ root # NULL_NODE => Rebuild(ThisTree).st = "ok"
       /\ \A leafAABB \in LeafBoxes :
            /\ InsertedIn(ThisTree, leafAABB).st = "ok"
            /\ Cardinality(DOMAIN particleMap) = MaxParticles =>
                 CallsEndIn(InsertedIn(InsertedIn(ThisTree, leafAABB), leafAABB))

\* a removal has walked up a tree of four particles, three of which remain
C27_Witness ==
  /\ last.op = "removeParticle" /\ last.outcome = "ok"
  /\ Cardinality(DOMAIN particleMap) = 3
  /\ nodes[root].height = 2
  /\ nodeCapacity = 8

====
